---- MODULE Spec2Model ----
(***************************************************************************)
(* Conv3: conversion technology with one main input carrier.  The model    *)
(* follows src/src/components/technologies/genericTechnologies/conv3.py:   *)
(* construct_tech_model adds named constraints and disjuncts to the block   *)
(* b_tec; a solution of the block (size, on-indicator, inputs, outputs and  *)
(* the boolean indicator of every disjunct) is then assigned one timestep   *)
(* at a time, and a timestep is accepted only if every constraint the block *)
(* holds is satisfied there.                                                *)
(*                                                                          *)
(* Real-valued parameters are rationals <<numerator, denominator>>; the     *)
(* decision variables take integer values and every constraint is compared  *)
(* after multiplying out the denominators, so the arithmetic is exact.      *)
(***************************************************************************)
EXTENDS Integers, Sequences, FiniteSets, TLC

\* ------------------------------------------------------------------ bounds
\* number of timesteps of set_t_full (and of set_t_performance)
NumTimesteps == 3
\* values above size * rated_power a candidate input may take
Slack == 1
\* var_x, when conv3.py declares it, is continuous on [0, 1]: grid k / XDen
XDen == 2
\* number of representative timesteps when typical days are used
NumClustered == 2

\* --------------------------------------------------------------- carriers
main_input_carrier == "gas"
set_input_carriers == {"gas", "el"}
set_output_carriers == {"heat"}

set_t_full == 1..NumTimesteps
set_t_clustered == 1..NumClustered

\* -------------------------------------------------------------- rationals
Num(r) == r[1]
Den(r) == r[2]
Zero == <<0, 1>>
Half == <<1, 2>>
One == <<1, 1>>
\* the value -1 that switches an option off
Disabled == <<-1, 1>>
IsDisabled(r) == Num(r) = -Den(r)
RatLess(a, b) == Num(a) * Den(b) < Num(b) * Den(a)
RatLeq(a, b) == Num(a) * Den(b) <= Num(b) * Den(a)
RatEq(a, b) == Num(a) * Den(b) = Num(b) * Den(a)

Rat(i) == <<i, 1>>
RatMul(a, b) == <<Num(a) * Num(b), Den(a) * Den(b)>>
RatAdd(a, b) == <<Num(a) * Den(b) + Num(b) * Den(a), Den(a) * Den(b)>>

Max(a, b) == IF a >= b THEN a ELSE b
\* ceiling of a rational n / d with d > 0
Ceil(r) == (Num(r) + Den(r) - 1) \div Den(r)

\* ---------------------------------------------------------- configuration
\* coeff_ti["fit"][car]: a scalar alpha1 (type 1), scalars alpha1 and alpha2
\* (type 2), or breakpoints bp_x with one alpha1, alpha2 per segment (3, 4)
FitType1 == {[car \in set_output_carriers |-> [alpha1 |-> 2]]}
FitType2 ==
    {[car \in set_output_carriers |-> [alpha1 |-> 1, alpha2 |-> 0]],
     [car \in set_output_carriers |-> [alpha1 |-> 2, alpha2 |-> 1]]}
FitType34 ==
    {[car \in set_output_carriers |->
        [bp_x |-> <<Zero, Half, One>>, alpha1 |-> <<1, 3>>, alpha2 |-> <<1, 0>>]]}

\* a piecewise fit with a single segment
FitOneSegment ==
    {[car \in set_output_carriers |->
        [bp_x |-> <<Zero, One>>, alpha1 |-> <<2>>, alpha2 |-> <<0>>]]}

\* input_ratios: with or without an entry for the main input carrier
PhiOthers == [car \in {"el"} |-> 2]
PhiAll == [car \in {"gas", "el"} |-> IF car = "el" THEN 2 ELSE 1]

\* (standby_power, standby_power_carrier, input_ratios)
NoStandby == <<Disabled, "-1", PhiOthers>>
StandbyVals ==
    {<<sb, "-1", PhiOthers>> : sb \in {Zero, Half}}
    \cup {<<sb, "el", phi>> : sb \in {Zero, Half}, phi \in {PhiOthers, PhiAll}}

Config(pft, mpl, sb, rp, fit, SU, SD, dynamics, smax) ==
    [performance_function_type |-> pft,
     min_part_load |-> mpl,
     standby_power |-> sb[1],
     standby_power_carrier |-> sb[2],
     phi |-> sb[3],
     rated_power |-> rp,
     fit |-> fit,
     SU_time |-> SU,
     SD_time |-> SD,
     dynamics |-> dynamics,
     size_max |-> smax,
     dynamics_keys |-> {},
     ramping_time |-> -1,
     ref_size |-> -1,
     ramping_const_int |-> 0,
     typicaldays_N |-> 0,
     typicaldays_method |-> 1,
     k_means_sequence |-> [t \in set_t_full |-> 1],
     sequence |-> [t \in set_t_full |-> 1]]

\* processed_coeff.dynamics with the keys given, for the ramping rates
Ramping(c, keys, rt, ref, int) ==
    [c EXCEPT !.dynamics_keys = keys, !.ramping_time = rt, !.ref_size = ref,
              !.ramping_const_int = int]

\* data["config"]["optimization"]["typicaldays"], data["k_means_specs"] and
\* self.sequence
TypicalDays(c, N, method, km, own) ==
    [c EXCEPT !.typicaldays_N = N, !.typicaldays_method = method,
              !.k_means_sequence = km, !.sequence = own]

\* sequences from full to representative timesteps
SequenceAlternating == [t \in set_t_full |-> ((t - 1) % NumClustered) + 1]
SequenceLastDay == [t \in set_t_full |-> IF t = NumTimesteps THEN 1 ELSE NumClustered]

\* dynamics: the technology's dynamics declared var_x, var_y and var_z
ConfigsType1 ==
    {Config(1, mpl, sb, One, fit, 0, 0, FALSE, 2) :
        mpl \in {Zero, Half}, sb \in {NoStandby, <<Half, "-1", PhiOthers>>},
        fit \in FitType1}
    \cup {Config(1, mpl, <<Half, "-1", PhiOthers>>, One, fit, 0, 0, TRUE, 2) :
        mpl \in {Zero, Half}, fit \in FitType1}
    \cup {Config(1, Zero, <<Half, "el", PhiOthers>>, One, fit, 0, 0, TRUE, 2) :
        fit \in FitType1}
ConfigsType2 ==
    {Config(2, mpl, sb, One, fit, 0, 0, FALSE, 2) :
        mpl \in {Zero, Half}, sb \in {NoStandby} \cup StandbyVals, fit \in FitType2}
    \cup {Config(2, Half, sb, rp, fit, 0, 0, TRUE, 2) :
        sb \in {NoStandby, <<Half, "-1", PhiOthers>>}, rp \in {One, <<2, 1>>},
        fit \in FitType2}
    \cup {Config(2, <<3, 10>>, NoStandby, One, fit, 0, 0, FALSE, 10) :
        fit \in {[car \in set_output_carriers |-> [alpha1 |-> 1, alpha2 |-> 0]]}}
ConfigsType3 ==
    {Config(3, mpl, sb, One, fit, 0, 0, FALSE, 2) :
        mpl \in {Zero, Half}, sb \in {NoStandby} \cup StandbyVals, fit \in FitType34}
    \cup {Config(3, Half, NoStandby, One, fit, 0, 0, FALSE, 2) : fit \in FitOneSegment}
ConfigsType4 ==
    {Config(4, mpl, NoStandby, One, fit, SU, 1, TRUE, 2) :
        mpl \in {Zero, <<4, 10>>, One}, fit \in FitType34, SU \in {1, 2}}
    \cup {Config(4, <<4, 10>>, NoStandby, One, fit, 3, 0, TRUE, 2) : fit \in FitType34}
    \cup {Config(4, One, NoStandby, <<2, 1>>, fit, 1, 1, TRUE, 2) : fit \in FitType34}
    \cup {Config(4, One, NoStandby, Half, fit, 2, 1, TRUE, 2) : fit \in FitType34}
    \cup {Config(4, One, NoStandby, One, fit, SU, SD, TRUE, 2) :
        fit \in FitType34, SU \in -1..2, SD \in -1..2}
    \cup {Config(4, One, sb, One, fit, 1, 1, dynamics, 2) :
        sb \in {NoStandby, <<Half, "-1", PhiOthers>>}, fit \in FitType34,
        dynamics \in BOOLEAN}

AllKeys == {"ramping_time", "ref_size", "ramping_const_int"}

\* ramping on the native index, without integers
ConfigsRampingNative ==
    {Ramping(Config(1, Zero, NoStandby, rp, fit, 0, 0, FALSE, 2), keys, rt, ref, int) :
        rp \in {Half, One}, fit \in FitType1,
        keys \in {AllKeys, {"ramping_time"}}, rt \in {-1, 2}, ref \in {-1, 1},
        int \in {0, 1}}
    \cup {Ramping(Config(2, Half, NoStandby, One, fit, 0, 0, FALSE, 2),
                  {"ramping_time"}, 2, -1, 0) : fit \in FitType2}

\* ramping coupled to var_x by a disjunction
ConfigsRampingInteger ==
    {Ramping(Config(2, Half, NoStandby, One, fit, 0, 0, FALSE, 2), AllKeys, rt, -1, 1) :
        fit \in FitType2, rt \in {2, 4}}
    \cup {TypicalDays(Ramping(Config(2, Half, NoStandby, One, fit, 0, 0, FALSE, 2),
                              AllKeys, 2, -1, 1),
                      2, 1, SequenceAlternating, SequenceLastDay) : fit \in FitType2}

\* ramping on the full index when typical days are used
ConfigsRampingClustered ==
    {TypicalDays(Ramping(Config(1, Zero, NoStandby, One, fit, 0, 0, FALSE, 2),
                         {"ramping_time"}, 2, -1, 0),
                 2, method, SequenceAlternating, SequenceLastDay) :
        fit \in FitType1, method \in {1, 2}}

ConfigsRamping ==
    ConfigsRampingNative \cup ConfigsRampingInteger \cup ConfigsRampingClustered

Configs ==
    ConfigsType1 \cup ConfigsType2 \cup ConfigsType3 \cup ConfigsType4
    \cup ConfigsRamping

VARIABLES
    cfg,            \* component_options, processed_coeff, input_parameters
    pc,             \* "new", "built", "error", "solving", "solved"
    b_tec,          \* names of the components construct_tech_model added
    warnings,       \* warnings emitted by warn()
    SU_time,        \* type 4: SU_time as used after the checks
    SD_time,        \* type 4: SD_time as used after the checks
    SU_trajectory,  \* type 4: startup trajectory (rationals)
    SD_trajectory,  \* type 4: shutdown trajectory (rationals)
    s_indicators,   \* indices of the mode disjuncts of one timestep
    var_size,       \* b_tec.var_size
    var_y,          \* b_tec.var_y: the timesteps where it is fixed to 1, to 0
    var_z,          \* b_tec.var_z: the timesteps where it is fixed to 1, to 0
    var_x,          \* b_tec.var_x[t], numerators over XDen, assigned timesteps
    input,          \* self.input[t, car], assigned timesteps
    output,         \* self.output[t, car], assigned timesteps
    ind_io,         \* indicators set among the mode disjuncts, per timestep
    ind_ii,         \* indicators set among dis_input_input[t, .], per timestep
    ind_rr,         \* indicators set among dis_ramping_operation_on[t, .]
    var_input_rr_full,  \* b_tec.var_input_rr_full[t, car], linked timesteps
    tec_data,           \* the technology data handed to Conv3.__init__
    component_options,  \* self.component_options
    fitting_class,      \* self.fitting_class, "None" while not assigned
    processed_coeff,    \* self.processed_coeff.time_independent
    life_pc,            \* "configured", "initialised", "fitted", or an error
    wind_given,         \* the options handed to the wind cost model
    wind_options,       \* WindEnergy_CostModel.options
    wind_units,         \* currency_in and financial_year_in, once set
    financial_indicators,   \* self.financial_indicators
    json_data,          \* the entries calculate_indicators wrote to self.json_data
    wind_pc             \* "idle", "created", "options_set", "calculated", or an error

\* the variables of the optimization block and of its solution
block_vars == <<cfg, pc, b_tec, warnings, SU_time, SD_time, SU_trajectory,
                SD_trajectory, s_indicators, var_size, var_y, var_z, var_x, input,
                output, ind_io, ind_ii, ind_rr, var_input_rr_full>>
\* the variables of the technology object before its block is constructed
life_vars == <<tec_data, component_options, fitting_class, processed_coeff, life_pc>>
\* the variables of the wind cost model
wind_vars == <<wind_given, wind_options, wind_units, financial_indicators,
               json_data, wind_pc>>

vars == <<block_vars, life_vars, wind_vars>>

\* the index the technology is optimized on: the full one unless typical days
\* are used
set_t_performance ==
    IF cfg.typicaldays_N = 0 THEN set_t_full ELSE set_t_clustered

\* ------------------------------------------------------- data of technology
rated_power == cfg.rated_power
min_part_load == cfg.min_part_load
standby_power == cfg.standby_power
phi == cfg.phi
alpha1(car) == cfg.fit[car].alpha1
alpha2(car) == cfg.fit[car].alpha2
\* bp_x is taken from the last carrier the loop over coeff_ti["fit"] visits
bp_x == cfg.fit[CHOOSE car \in set_output_carriers : TRUE].bp_x

car_standby_power ==
    IF cfg.standby_power_carrier = "-1"
    THEN main_input_carrier
    ELSE cfg.standby_power_carrier

\* var_size * rated_power, and a fraction of it
SizeRated == RatMul(Rat(var_size), rated_power)
FractionOfSize(r) == RatMul(RatMul(r, Rat(var_size)), rated_power)

\* ------------------------------------------ construct_tech_model: all types
\* const_input_input, standby_power == -1
init_input_input(inp, car_input) ==
    IF car_input = main_input_carrier
    THEN TRUE
    ELSE inp[car_input] = phi[car_input] * inp[main_input_carrier]

\* dis_input_input[t, 0]: technology off
init_input_off(inp, car_input) ==
    IF car_input = car_standby_power
    THEN TRUE
    ELSE inp[car_input] = 0

\* dis_input_input[t, 1]: technology on
init_input_on(inp, car_input) ==
    IF car_input = car_standby_power
    THEN TRUE
    ELSE inp[car_input] = phi[car_input] * inp[car_standby_power]

dis_input_input_x(ind, xv) ==
    IF ind = 0 THEN xv = 0 ELSE xv = XDen

dis_input_input_in(ind, inp) ==
    IF ind = 0
    THEN \A car_input \in set_input_carriers : init_input_off(inp, car_input)
    ELSE \A car_input \in set_input_carriers : init_input_on(inp, car_input)

\* the size constraint of a block built without const_size
init_size_constraint_missing(inp) == TRUE

\* const_size
init_size_constraint(inp) ==
    RatLeq(Rat(inp[main_input_carrier]), SizeRated)

\* ----------------------------------------------------------------- type 1
t1_init_input_output(inp, out, car_output) ==
    out[car_output] = alpha1(car_output) * inp[main_input_carrier]

t1_init_min_part_load(inp) ==
    RatLeq(FractionOfSize(min_part_load), Rat(inp[main_input_carrier]))

\* ----------------------------------------------------------------- type 2
\* off disjunct, standby_power == -1
t2_init_input_off(inp, car_input) ==
    inp[car_input] = 0

\* off disjunct, standby power configured
t2_init_standby_power(inp, car_input) ==
    IF car_input = main_input_carrier
    THEN RatEq(Rat(inp[car_standby_power]), FractionOfSize(standby_power))
    ELSE inp[car_input] = 0

t2_init_output_off(out, car_output) ==
    out[car_output] = 0

t2_init_input_output_on(inp, out, car_output) ==
    RatEq(Rat(out[car_output]),
          RatAdd(Rat(alpha1(car_output) * inp[main_input_carrier]),
                 FractionOfSize(Rat(alpha2(car_output)))))

\* the part-load bound of type 2 as a strict inequality
t2_init_min_partload_strict(inp) ==
    RatLess(FractionOfSize(min_part_load), Rat(inp[main_input_carrier]))

t2_init_min_partload(inp) ==
    RatLeq(FractionOfSize(min_part_load), Rat(inp[main_input_carrier]))

\* the on disjuncts leave var_x free
t2_dis_x_off_only(ind, xv) ==
    IF ind = 0 THEN xv = 0 ELSE TRUE

\* dis_input_output[t, ind] of type 2: const_x_off / const_x_on ...
t2_dis_x(ind, xv) ==
    IF ind = 0 THEN xv = 0 ELSE xv = XDen

\* ... its constraints on the inputs ...
t2_dis_in(ind, inp) ==
    IF ind = 0
    THEN IF IsDisabled(standby_power)
         THEN \A car_input \in set_input_carriers : t2_init_input_off(inp, car_input)
         ELSE \A car_input \in set_input_carriers : t2_init_standby_power(inp, car_input)
    ELSE t2_init_min_partload(inp)

\* ... and its constraints on the outputs
t2_dis_out(ind, inp, out) ==
    IF ind = 0
    THEN \A car_output \in set_output_carriers : t2_init_output_off(out, car_output)
    ELSE \A car_output \in set_output_carriers :
            t2_init_input_output_on(inp, out, car_output)

\* ----------------------------------------------------------------- type 3
\* python indexes bp_x, alpha1 and alpha2 from 0, the sequences here from 1:
\* the disjunct ind >= 1 is segment ind, between bp_x[ind] and bp_x[ind + 1]
t3_init_input_off(inp, car_input) ==
    inp[car_input] = 0

t3_init_standby_power(inp, car_input) ==
    IF car_input = main_input_carrier
    THEN RatEq(Rat(inp[car_standby_power]), FractionOfSize(standby_power))
    ELSE inp[car_input] = 0

t3_init_output_off(out, car_output) ==
    out[car_output] = 0

t3_init_input_on1(inp, ind) ==
    RatLeq(FractionOfSize(bp_x[ind]), Rat(inp[main_input_carrier]))

t3_init_input_on2(inp, ind) ==
    RatLeq(Rat(inp[main_input_carrier]), FractionOfSize(bp_x[ind + 1]))

\* the output of every segment computed with the first segment's coefficients
t3_init_output_on_first(inp, out, ind, car_output) ==
    RatEq(Rat(out[car_output]),
          RatAdd(Rat(alpha1(car_output)[1] * inp[main_input_carrier]),
                 FractionOfSize(Rat(alpha2(car_output)[1]))))

t3_init_output_on(inp, out, ind, car_output) ==
    RatEq(Rat(out[car_output]),
          RatAdd(Rat(alpha1(car_output)[ind] * inp[main_input_carrier]),
                 FractionOfSize(Rat(alpha2(car_output)[ind]))))

t3_init_min_partload(inp) ==
    RatLeq(FractionOfSize(min_part_load), Rat(inp[main_input_carrier]))

t3_dis_x(ind, xv) ==
    IF ind = 0 THEN xv = 0 ELSE xv = XDen

t3_dis_in(ind, inp) ==
    IF ind = 0
    THEN IF IsDisabled(standby_power)
         THEN \A car_input \in set_input_carriers : t3_init_input_off(inp, car_input)
         ELSE \A car_input \in set_input_carriers : t3_init_standby_power(inp, car_input)
    ELSE /\ t3_init_input_on1(inp, ind)
         /\ t3_init_input_on2(inp, ind)
         /\ t3_init_min_partload(inp)

t3_dis_out(ind, inp, out) ==
    IF ind = 0
    THEN \A car_output \in set_output_carriers : t3_init_output_off(out, car_output)
    ELSE \A car_output \in set_output_carriers :
            t3_init_output_on(inp, out, ind, car_output)

\* ----------------------------------------------------------------- type 4
RatDivInt(r, n) == <<Num(r), Den(r) * n>>

\* a trajectory whose steps are min_part_load / n: it ends at min_part_load
TrajectoryOverN(mpl, n) ==
    [i \in 1..n |-> RatMul(RatDivInt(mpl, n), Rat(i))]

\* for i in range(1, n + 1): append((min_part_load / (n + 1)) * i)
Trajectory(mpl, n) ==
    [i \in 1..n |-> RatMul(RatDivInt(mpl, n + 1), Rat(i))]

\* the trajectory left in the order the loop appended it
SortedForward(seq) == seq

\* sorted(seq, reverse=True): insertion of each element into a sorted prefix
RECURSIVE InsertDesc(_, _)
InsertDesc(sorted, v) ==
    IF sorted = <<>> THEN <<v>>
    ELSE IF RatLess(Head(sorted), v) THEN <<v>> \o sorted
    ELSE <<Head(sorted)>> \o InsertDesc(Tail(sorted), v)

RECURSIVE SortedReverse(_)
SortedReverse(seq) ==
    IF seq = <<>> THEN <<>>
    ELSE InsertDesc(SortedReverse(SubSeq(seq, 1, Len(seq) - 1)), seq[Len(seq)])

\* SU_time, SD_time after the if / elif / elif of lines 600-607
CheckedSUSD(SU, SD) ==
    IF SU <= 0 /\ SD <= 0 THEN <<SU, SD>>
    ELSE IF SU < 0 THEN <<0, SD>>
    ELSE IF SD < 0 THEN <<SU, 0>>
    ELSE <<SU, SD>>

\* range(1, n + 1)
Range1(n) == 1..n

\* index of var_y / var_z a startup offset refers to (init_y_off, init_y_on)
IndexSU(SU, t, i) ==
    IF t < NumTimesteps - SU \/ i > SU - (NumTimesteps - t)
    THEN t - i + SU + 1
    ELSE (t - i + SU + 1) - NumTimesteps

\* the shutdown index without the wrap at the start of the series
IndexSD_no_wrap(t, j) == t - j + 1

\* index of var_y / var_z a shutdown offset refers to (init_z_off, init_z_on)
IndexSD(t, j) ==
    IF j <= t
    THEN t - j + 1
    ELSE NumTimesteps + (t - j + 1)

\* which branch of init_SUSD_trajectories the disjunct ind takes
BranchKind(ind) ==
    IF ind = 0 THEN "off"
    ELSE IF ind \in Range1(SU_time) THEN "startup"
    ELSE IF ind \in (SU_time + 1)..(SU_time + SD_time) THEN "shutdown"
    ELSE IF ind > SU_time + SD_time THEN "on"
    ELSE "none"

ind_SD(ind) == ind - SU_time
ind_bpx(ind) == ind - (SU_time + SD_time)

init_input_SU(inp, ind) ==
    RatEq(Rat(inp[main_input_carrier]), RatMul(Rat(var_size), SU_trajectory[ind]))

init_input_SD(inp, ind) ==
    RatEq(Rat(inp[main_input_carrier]),
          RatMul(Rat(var_size), SD_trajectory[ind_SD(ind)]))

\* the startup output without the intercept term
init_output_SU_no_intercept(inp, out, car_output) ==
    RatEq(Rat(out[car_output]), Rat(alpha1(car_output)[1] * inp[main_input_carrier]))

\* alpha1[car_output][0], alpha2[car_output][0]: the fit of the first segment
init_output_SU(inp, out, car_output) ==
    RatEq(Rat(out[car_output]),
          RatAdd(Rat(alpha1(car_output)[1] * inp[main_input_carrier]),
                 FractionOfSize(Rat(alpha2(car_output)[1]))))

init_output_SD(inp, out, car_output) ==
    RatEq(Rat(out[car_output]),
          RatAdd(Rat(alpha1(car_output)[1] * inp[main_input_carrier]),
                 FractionOfSize(Rat(alpha2(car_output)[1]))))

t4_dis_x(ind, xv) ==
    IF BranchKind(ind) = "on" THEN xv = XDen
    ELSE IF BranchKind(ind) = "none" THEN TRUE
    ELSE xv = 0

\* the indices at which the disjunct fixes var_y to 1 (init_y_on) ...
t4_y_one(t, ind) ==
    IF BranchKind(ind) = "startup" THEN {IndexSU(SU_time, t, ind)} ELSE {}

\* the off branch fixes no var_y
t4_y_zero_shutdown_only(t, ind) ==
    IF BranchKind(ind) = "shutdown" THEN {IndexSD(t, ind_SD(ind))} ELSE {}

\* ... var_y to 0 (init_y_off of the off and of the shutdown branch) ...
t4_y_zero(t, ind) ==
    CASE BranchKind(ind) = "off" -> {IndexSU(SU_time, t, i) : i \in Range1(SU_time)}
      [] BranchKind(ind) = "shutdown" -> {IndexSD(t, ind_SD(ind))}
      [] OTHER -> {}

\* ... var_z to 1 (init_z_on) ...
t4_z_one(t, ind) ==
    IF BranchKind(ind) = "shutdown" THEN {IndexSD(t, ind_SD(ind))} ELSE {}

\* ... and var_z to 0 (init_z_off of the off and of the startup branch)
t4_z_zero(t, ind) ==
    CASE BranchKind(ind) = "off" -> {IndexSD(t, j) : j \in Range1(SD_time)}
      [] BranchKind(ind) = "startup" -> {IndexSU(SU_time, t, ind)}
      [] OTHER -> {}

t4_init_input_off(inp, car_input) ==
    inp[car_input] = 0

t4_init_output_off(out, car_output) ==
    out[car_output] = 0

t4_init_input_on1(inp, ind) ==
    RatLeq(FractionOfSize(bp_x[ind_bpx(ind)]), Rat(inp[main_input_carrier]))

t4_init_input_on2(inp, ind) ==
    RatLeq(Rat(inp[main_input_carrier]), FractionOfSize(bp_x[ind_bpx(ind) + 1]))

t4_init_output_on(inp, out, ind, car_output) ==
    RatEq(Rat(out[car_output]),
          RatAdd(Rat(alpha1(car_output)[ind_bpx(ind)] * inp[main_input_carrier]),
                 FractionOfSize(Rat(alpha2(car_output)[ind_bpx(ind)]))))

t4_init_min_partload(inp) ==
    RatLeq(FractionOfSize(min_part_load), Rat(inp[main_input_carrier]))

t4_dis_in(ind, inp) ==
    CASE BranchKind(ind) = "off" ->
            \A car_input \in set_input_carriers : t4_init_input_off(inp, car_input)
      [] BranchKind(ind) = "startup" -> init_input_SU(inp, ind)
      [] BranchKind(ind) = "shutdown" -> init_input_SD(inp, ind)
      [] BranchKind(ind) = "on" ->
            /\ t4_init_input_on1(inp, ind)
            /\ t4_init_input_on2(inp, ind)
            /\ t4_init_min_partload(inp)
      [] OTHER -> TRUE

t4_dis_out(ind, inp, out) ==
    CASE BranchKind(ind) = "off" ->
            \A car_output \in set_output_carriers : t4_init_output_off(out, car_output)
      [] BranchKind(ind) = "startup" ->
            \A car_output \in set_output_carriers : init_output_SU(inp, out, car_output)
      [] BranchKind(ind) = "shutdown" ->
            \A car_output \in set_output_carriers : init_output_SD(inp, out, car_output)
      [] BranchKind(ind) = "on" ->
            \A car_output \in set_output_carriers :
                t4_init_output_on(inp, out, ind, car_output)
      [] OTHER -> TRUE

\* every index of var_y and var_z the disjuncts refer to
IndicesUsed(SU, SD) ==
    {IndexSU(SU, t, i) : t \in set_t_full, i \in Range1(SU)}
    \cup {IndexSD(t, j) : t \in set_t_full, j \in Range1(SD)}

\* ------------------------------------------------------------ ramping rates
\* "ramping_time" in dynamics and not dynamics["ramping_time"] == -1
RampingEnabled ==
    "ramping_time" \in cfg.dynamics_keys /\ cfg.ramping_time # -1

\* the rate always taken from var_size
ramping_rate_of_size == <<var_size, cfg.ramping_time>>

\* ramping_rate: ref_size / ramping_time, or var_size / ramping_time
ramping_rate ==
    IF "ref_size" \in cfg.dynamics_keys /\ cfg.ref_size # -1
    THEN <<cfg.ref_size, cfg.ramping_time>>
    ELSE <<var_size, cfg.ramping_time>>

\* the integer mode chosen whatever the function type is
RampingIntegerAnyType ==
    /\ "ramping_const_int" \in cfg.dynamics_keys
    /\ cfg.ramping_const_int = 1

\* the disjunction on var_x is used
RampingInteger ==
    /\ cfg.performance_function_type # 1
    /\ "ramping_const_int" \in cfg.dynamics_keys
    /\ cfg.ramping_const_int = 1

\* the series the rates are taken on is the technology's own input
RampingNative == ~RampingInteger /\ cfg.typicaldays_N = 0

RampingClustered == ~RampingInteger /\ cfg.typicaldays_N # 0

\* sequence is bound by neither branch on the method
RampingRaises ==
    RampingEnabled /\ RampingClustered /\ cfg.typicaldays_method \notin {1, 2}

\* the sequence of the k-means clustering, whatever the method
sequence_of_k_means == cfg.k_means_sequence

\* the sequence of the clustering method
sequence ==
    IF cfg.typicaldays_method = 1 THEN cfg.k_means_sequence ELSE cfg.sequence

RampingComponents ==
    IF ~RampingEnabled THEN {}
    ELSE IF RampingInteger
    THEN {"dis_ramping_operation_on", "disjunction_ramping_operation_on"}
    ELSE (IF RampingClustered
          THEN {"var_input_rr_full", "const_link_full_resolution_rr"}
          ELSE {})
         \cup {"const_ramping_down_rate", "const_ramping_up_rate"}

\* -ramping_rate <= now - before
init_ramping_down_rate(before, now) ==
    RatLeq(<<-Num(ramping_rate), Den(ramping_rate)>>, Rat(now - before))

\* now - before <= ramping_rate
init_ramping_up_rate(before, now) ==
    RatLeq(Rat(now - before), ramping_rate)

\* the disjunct ind of dis_ramping_operation_on at t, on var_x ...
init_ramping_operation_on_x(t, ind, xbefore, xv) ==
    IF t > 1
    THEN CASE ind = 0 -> xv - xbefore = 0
           [] ind = 1 -> xv - xbefore = XDen
           [] OTHER -> xv - xbefore = -XDen
    ELSE TRUE

\* the rate bound of the steady disjunct left out
init_ramping_operation_on_in_free(t, ind, before, now) == TRUE

\* ... and on the main input
init_ramping_operation_on_in(t, ind, before, now) ==
    IF t > 1 /\ ind = 0
    THEN init_ramping_down_rate(before, now) /\ init_ramping_up_rate(before, now)
    ELSE TRUE

\* the full series read by position instead of through the sequence
link_by_position(var_clustered, set_t, seq, set_car) ==
    [t \in {s \in set_t : seq[s] \in 1..Len(var_clustered)} |->
        [car \in set_car |-> var_clustered[((t - 1) % Len(var_clustered)) + 1][car]]]

\* link_full_resolution_to_clustered: var_full[t, car] == var_clustered[sequence[t], car]
\* for every full timestep and carrier; here for the timesteps whose
\* representative timestep is assigned in var_clustered
link_full_resolution_to_clustered(var_clustered, set_t, seq, set_car) ==
    [t \in {s \in set_t : seq[s] \in 1..Len(var_clustered)} |->
        [car \in set_car |-> var_clustered[seq[t]][car]]]

\* const_ramping_down_rate, const_ramping_up_rate on the series input_aux_rr,
\* for the pairs (t - 1, t) it holds values for
RatesHold(input_aux_rr, set_t_rr) ==
    \A t \in set_t_rr :
        (t > 1 /\ t \in DOMAIN input_aux_rr /\ (t - 1) \in DOMAIN input_aux_rr) =>
            /\ init_ramping_down_rate(input_aux_rr[t - 1][main_input_carrier],
                                      input_aux_rr[t][main_input_carrier])
            /\ init_ramping_up_rate(input_aux_rr[t - 1][main_input_carrier],
                                    input_aux_rr[t][main_input_carrier])

\* ------------------------------------------------------------ construction
pft == cfg.performance_function_type
StandbyConfigured == ~IsDisabled(standby_power)

\* var_x exists when the technology's dynamics declared it (binary, with
\* var_y and var_z) or when type 2 or 3 declares it (continuous on [0, 1])
VarXDeclaredHere == pft \in {2, 3} /\ ~cfg.dynamics
VarXExists == cfg.dynamics \/ pft \in {2, 3}

\* range(0, n)
Range0(n) == 0..(n - 1)

\* type 1 that adds the part-load constraint whatever min_part_load is
Type1ComponentsAlways == {"const_input_output", "const_min_part_load"}

\* type 1 that never adds the part-load constraint
Type1ComponentsNever == {"const_input_output"}

Type1Components ==
    {"const_input_output"}
    \cup (IF RatLess(Zero, min_part_load) THEN {"const_min_part_load"} ELSE {})

Type23Components ==
    (IF VarXDeclaredHere THEN {"var_x"} ELSE {})
    \cup {"dis_input_output", "disjunction_input_output"}

Type4Components == {"dis_SUSD_trajectory", "disjunction_SUSD_traject"}

\* b_tec.var_x (and var_y, var_z at the indices used) must exist
Type4Raises ==
    \/ ~cfg.dynamics
    \/ ~(IndicesUsed(CheckedSUSD(cfg.SU_time, cfg.SD_time)[1],
                     CheckedSUSD(cfg.SU_time, cfg.SD_time)[2]) \subseteq set_t_full)

PerformanceComponents ==
    CASE pft = 1 -> Type1Components
      [] pft = 2 -> Type23Components
      [] pft = 3 -> Type23Components
      [] pft = 4 -> IF Type4Raises THEN {} ELSE Type4Components

\* the ratio part raises when var_x is missing or phi lacks a carrier it reads
RatioRaises ==
    IF StandbyConfigured
    THEN \/ ~VarXExists
         \/ \E car_input \in set_input_carriers \ {car_standby_power} :
                car_input \notin DOMAIN phi
    ELSE \E car_input \in set_input_carriers \ {main_input_carrier} :
                car_input \notin DOMAIN phi

RatioComponents ==
    IF StandbyConfigured
    THEN {"dis_input_input", "disjunction_input_input"}
    ELSE {"const_input_input"}

Raises == (pft = 4 /\ Type4Raises) \/ RatioRaises \/ RampingRaises

Warnings ==
    (IF pft = 2 /\ RatEq(min_part_load, Zero) THEN {"type 2 with no part-load"} ELSE {})
    \cup (IF pft = 4 /\ cfg.SU_time <= 0 /\ cfg.SD_time <= 0
          THEN {"type 4 with no slow SU/SDs"} ELSE {})

ModeIndicators ==
    CASE pft = 1 -> {}
      [] pft = 2 -> Range0(2)
      [] pft = 3 -> Range0(Len(bp_x))
      [] pft = 4 -> Range0(CheckedSUSD(cfg.SU_time, cfg.SD_time)[1]
                           + CheckedSUSD(cfg.SU_time, cfg.SD_time)[2] + Len(bp_x))

\* ------------------------------------------------- technology life cycle
\* the technology data a Conv3 is created from: the function type and the
\* bases the configuration requests
BasedOn == {"input", "output"}
TecDataOf(c, size_based_on, emissions_based_on) ==
    [performance_function_type |-> c.performance_function_type,
     size_based_on |-> size_based_on,
     emissions_based_on |-> emissions_based_on,
     main_input_carrier |-> main_input_carrier]

\* configurations with a function type that is not one of 1, 2, 3, 4
ConfigsUnsupported ==
    {[c EXCEPT !.performance_function_type = p] : c \in ConfigsType1, p \in {0, 5}}

\* the options as they stand after Technology.__init__ has read the data
OptionsRead(data) ==
    [performance_function_type |-> data.performance_function_type,
     size_based_on |-> data.size_based_on,
     emissions_based_on |-> data.emissions_based_on,
     main_input_carrier |-> "None"]

\* the chain with the test for type 4 left out of its third branch
FittingClassOfWithout4(p) ==
    CASE p = 1 -> "FitGenericTecTypeType1"
      [] p = 2 -> "FitGenericTecTypeType2"
      [] p = 3 -> "FitGenericTecTypeType34"
      [] OTHER -> "None"

\* the if / elif chain choosing the fitting class; "None": none is assigned
FittingClassOf(p) ==
    CASE p = 1 -> "FitGenericTecTypeType1"
      [] p = 2 -> "FitGenericTecTypeType2"
      [] p = 3 \/ p = 4 -> "FitGenericTecTypeType34"
      [] OTHER -> "None"

\* the else branch of the chain raises
InitRaises(p) == ~(p = 1 \/ p = 2 \/ p = 3 \/ p = 4)

\* the options as Conv3.__init__ leaves them
OptionsSet(options, data) ==
    [options EXCEPT !.emissions_based_on = "input",
                    !.size_based_on = "input",
                    !.main_input_carrier = data.main_input_carrier]

\* the check fit_technology_performance makes before it fits
FitRaises(options) == options.size_based_on = "output"

\* processed_coeff.time_independent after the fit: "fit" from the fitting
\* class, "phi" copied from performance_data["input_ratios"]
CoeffFitted(c) ==
    [key \in {"fit", "phi"} |-> IF key = "fit" THEN c.fit ELSE c.phi]

\* a dictionary without entries
NoEntries == [key \in {} |-> "None"]

\* the state of the block and of its solution before construct_tech_model
BlockNew ==
    /\ pc = "new"
    /\ b_tec = {}
    /\ warnings = {}
    /\ SU_time = 0
    /\ SD_time = 0
    /\ SU_trajectory = <<>>
    /\ SD_trajectory = <<>>
    /\ s_indicators = {}
    /\ var_size = 0
    /\ var_y = [one |-> {}, zero |-> {}]
    /\ var_z = [one |-> {}, zero |-> {}]
    /\ var_x = <<>>
    /\ input = <<>>
    /\ output = <<>>
    /\ ind_io = <<>>
    /\ ind_ii = <<>>
    /\ ind_rr = <<>>
    /\ var_input_rr_full = <<>>

\* no wind cost model is in use
WindIdle ==
    /\ wind_given = NoEntries
    /\ wind_options = NoEntries
    /\ wind_units = NoEntries
    /\ financial_indicators = NoEntries
    /\ json_data = NoEntries
    /\ wind_pc = "idle"

\* a technology that was created and fitted, its block not yet constructed
Init ==
    /\ cfg \in Configs
    /\ BlockNew
    /\ tec_data = TecDataOf(cfg, "input", "input")
    /\ component_options = OptionsSet(OptionsRead(tec_data), tec_data)
    /\ fitting_class = FittingClassOf(cfg.performance_function_type)
    /\ processed_coeff = CoeffFitted(cfg)
    /\ life_pc = "fitted"
    /\ WindIdle

\* technology data as read by Technology.__init__, Conv3.__init__ not yet run
InitLifecycle ==
    /\ cfg \in Configs \cup ConfigsUnsupported
    /\ BlockNew
    /\ tec_data \in {TecDataOf(cfg, s, e) : s \in BasedOn, e \in BasedOn}
    /\ component_options = OptionsRead(tec_data)
    /\ fitting_class = "None"
    /\ processed_coeff = NoEntries
    /\ life_pc = "configured"
    /\ WindIdle

\* Conv3.__init__, after super().__init__
Conv3Init ==
    /\ life_pc = "configured"
    /\ component_options' = OptionsSet(component_options, tec_data)
    /\ fitting_class' = FittingClassOf(component_options.performance_function_type)
    /\ life_pc' = IF InitRaises(component_options.performance_function_type)
                  THEN "init_error" ELSE "initialised"
    /\ UNCHANGED <<block_vars, tec_data, processed_coeff, wind_vars>>

\* Conv3.fit_technology_performance
fit_technology_performance ==
    /\ life_pc = "initialised"
    /\ IF FitRaises(component_options)
       THEN /\ life_pc' = "fit_error"
            /\ UNCHANGED processed_coeff
       ELSE /\ life_pc' = "fitted"
            /\ processed_coeff' = CoeffFitted(cfg)
    /\ UNCHANGED <<block_vars, tec_data, component_options, fitting_class, wind_vars>>

\* --------------------------------------------------------- wind cost model
\* the options a caller may hand over: any subset of the keys, each with one
\* of its values
WindOptionKeys == {"terrain", "nameplate_capacity_MW", "source", "region"}
WindOptionValues ==
    [terrain : {"Onshore", "Offshore", "Mountain"},
     nameplate_capacity_MW : {4, 10},
     source : {"IRENA", "NREL"},
     region : {"Germany", "France"}]
WindOptionsGiven ==
    {[key \in keys |-> values[key]] :
        keys \in SUBSET WindOptionKeys, values \in WindOptionValues}

\* WindEnergy_CostModel.__init__: the default options
default_options == [source |-> "IRENA", region |-> "Germany"]

\* the dictionary d with d[key] = value
Put(d, key, value) ==
    [k \in DOMAIN d \cup {key} |-> IF k = key THEN value ELSE d[k]]

\* self.options[key] = options[key], for a key the caller gave
CopyGiven(options, key, given) ==
    IF key \in DOMAIN given THEN Put(options, key, given[key]) ELSE options

\* _set_option_value: the given value, or the default when none is given
set_option_value(options, key, given) ==
    Put(options, key,
        IF key \in DOMAIN given THEN given[key] ELSE default_options[key])

\* only the terrain is required by the try block
MissingTerrain(given) == "terrain" \notin DOMAIN given

\* the try block of _set_options ends in KeyError
MissingRequired(given) ==
    \/ "terrain" \notin DOMAIN given
    \/ "nameplate_capacity_MW" \notin DOMAIN given

\* the source _set_options accepts
SourceAvailable(source) == source = "IRENA"

\* the options when the try block is left: terrain is copied before the
\* nameplate capacity is looked up
OptionsTried(options, given) ==
    CopyGiven(CopyGiven(options, "terrain", given), "nameplate_capacity_MW", given)

\* the loop over default_options.keys()
OptionsDefaulted(options, given) ==
    set_option_value(set_option_value(options, "source", given), "region", given)

\* Irena(module).calculate_cost(region, discount_rate)[item], kept symbolic
Cost(module, region, item) == <<module, region, item>>

\* the module calculate_indicators takes the costs from; "None": it raises
CalculationModule(terrain) ==
    IF terrain = "Offshore" THEN "Wind_Offshore"
    ELSE IF terrain = "Onshore" THEN "Wind_Onshore"
    ELSE "None"

\* the indicators calculate_indicators stores for source IRENA
Indicators(module, options, given) ==
    [module_capex |->
        <<Cost(module, options.region, "unit_capex"),
          given.nameplate_capacity_MW, 1000>>,
     opex_variable |-> Cost(module, options.region, "opex_var"),
     opex_fix |-> Cost(module, options.region, "opex_fix"),
     levelized_cost |-> <<Cost(module, options.region, "levelized_cost"), 1000>>,
     lifetime |-> Cost(module, options.region, "lifetime")]

\* the entries written to the json template
JsonWritten(indicators) ==
    [unit_CAPEX |-> indicators.module_capex,
     OPEX_fixed |-> indicators.opex_fix,
     OPEX_variable |-> indicators.opex_variable,
     lifetime |-> indicators.lifetime,
     size_is_int |-> 1]

\* no technology is in use
TecIdle ==
    /\ cfg = CHOOSE c \in ConfigsType1 : TRUE
    /\ BlockNew
    /\ tec_data = TecDataOf(cfg, "input", "input")
    /\ component_options = OptionsRead(tec_data)
    /\ fitting_class = "None"
    /\ processed_coeff = NoEntries
    /\ life_pc = "idle"

\* a wind cost model after __init__, with the options of one call
InitWind ==
    /\ TecIdle
    /\ wind_given \in WindOptionsGiven
    /\ wind_options = NoEntries
    /\ wind_units = NoEntries
    /\ financial_indicators = NoEntries
    /\ json_data = NoEntries
    /\ wind_pc = "created"

\* WindEnergy_CostModel._set_options
set_options ==
    /\ wind_pc = "created"
    /\ IF MissingRequired(wind_given)
       THEN /\ wind_options' = OptionsTried(wind_options, wind_given)
            /\ wind_pc' = "KeyError"
            /\ UNCHANGED wind_units
       ELSE LET tried == OptionsTried(wind_options, wind_given)
                sourced == set_option_value(tried, "source", wind_given)
            IN IF SourceAvailable(sourced.source)
               THEN /\ wind_options' = OptionsDefaulted(sourced, wind_given)
                    /\ wind_units' = [currency_in |-> "USD", financial_year_in |-> 2023]
                    /\ wind_pc' = "options_set"
               ELSE /\ wind_options' = sourced
                    /\ wind_pc' = "ValueError"
                    /\ UNCHANGED wind_units
    /\ UNCHANGED <<block_vars, life_vars, wind_given, financial_indicators, json_data>>

\* WindEnergy_CostModel.calculate_indicators, the options being set
calculate_indicators ==
    /\ wind_pc = "options_set"
    /\ IF wind_options.source = "IRENA"
       THEN IF CalculationModule(wind_options.terrain) = "None"
            THEN /\ wind_pc' = "ValueError"
                 /\ UNCHANGED <<financial_indicators, json_data>>
            ELSE /\ financial_indicators' =
                        Indicators(CalculationModule(wind_options.terrain),
                                   wind_options, wind_given)
                 /\ json_data' = JsonWritten(financial_indicators')
                 /\ wind_pc' = "calculated"
       ELSE /\ wind_pc' = "KeyError"
            /\ UNCHANGED <<financial_indicators, json_data>>
    /\ UNCHANGED <<block_vars, life_vars, wind_given, wind_options, wind_units>>

\* construct_tech_model
Construct ==
    /\ life_pc = "fitted"
    /\ pc = "new"
    /\ pc' = IF Raises THEN "error" ELSE "built"
    /\ warnings' = Warnings
    /\ b_tec' = IF pft = 4 /\ Type4Raises THEN {}
                ELSE IF RatioRaises THEN PerformanceComponents
                ELSE IF RampingRaises
                THEN PerformanceComponents \cup RatioComponents \cup {"const_size"}
                ELSE PerformanceComponents \cup RatioComponents \cup {"const_size"}
                     \cup RampingComponents
    /\ SU_time' = IF pft = 4 THEN CheckedSUSD(cfg.SU_time, cfg.SD_time)[1] ELSE 0
    /\ SD_time' = IF pft = 4 THEN CheckedSUSD(cfg.SU_time, cfg.SD_time)[2] ELSE 0
    /\ SU_trajectory' =
            IF pft = 4 /\ CheckedSUSD(cfg.SU_time, cfg.SD_time)[1] > 0
            THEN Trajectory(min_part_load, CheckedSUSD(cfg.SU_time, cfg.SD_time)[1])
            ELSE <<>>
    /\ SD_trajectory' =
            IF pft = 4 /\ CheckedSUSD(cfg.SU_time, cfg.SD_time)[2] > 0
            THEN SortedReverse(
                    Trajectory(min_part_load, CheckedSUSD(cfg.SU_time, cfg.SD_time)[2]))
            ELSE <<>>
    /\ s_indicators' = ModeIndicators
    /\ UNCHANGED <<cfg, var_size, var_y, var_z, var_x, input, output, ind_io, ind_ii,
                   ind_rr, var_input_rr_full, life_vars, wind_vars>>

\* --------------------------------------------------------------- solutions
\* a disjunction built with xor=False: at least one indicator is set
DisjunctionAtLeastOne(sel) == Cardinality(sel) >= 1

\* gdp.Disjunction (xor): exactly one indicator of the disjuncts it binds is set
Disjunction(sel) == Cardinality(sel) = 1

SizeGrid == {0, 2, 10}
SizeVals == {s \in SizeGrid : s <= cfg.size_max}
InMax == cfg.size_max * Ceil(rated_power) + Slack
OtherInputs ==
    [set_input_carriers \ {main_input_carrier} -> 0..(phi["el"] * InMax)]
MaxAlpha1 == IF pft \in {3, 4} THEN 3 ELSE 2
OutMax == MaxAlpha1 * InMax + cfg.size_max * Ceil(rated_power)
OutVals == [set_output_carriers -> 0..OutMax]
XVals ==
    IF cfg.dynamics THEN {0, XDen}
    ELSE IF "var_x" \in b_tec THEN 0..XDen
    ELSE {0}

HasModeDisjuncts == "dis_input_output" \in b_tec \/ "dis_SUSD_trajectory" \in b_tec
HasModeDisjunction ==
    "disjunction_input_output" \in b_tec \/ "disjunction_SUSD_traject" \in b_tec

\* the mode disjunct ind of timestep t
mode_x(ind, xv) ==
    CASE pft = 2 -> t2_dis_x(ind, xv)
      [] pft = 3 -> t3_dis_x(ind, xv)
      [] pft = 4 -> t4_dis_x(ind, xv)
mode_in(t, ind, inp) ==
    CASE pft = 2 -> t2_dis_in(ind, inp)
      [] pft = 3 -> t3_dis_in(ind, inp)
      [] pft = 4 -> t4_dis_in(ind, inp)
mode_out(ind, inp, out) ==
    CASE pft = 2 -> t2_dis_out(ind, inp, out)
      [] pft = 3 -> t3_dis_out(ind, inp, out)
      [] pft = 4 -> t4_dis_out(ind, inp, out)

\* the constraints of the block at timestep t, by the variables they read
IndicatorsHold(sel_io, sel_ii) ==
    /\ HasModeDisjunction => Disjunction(sel_io)
    /\ "disjunction_input_input" \in b_tec => Disjunction(sel_ii)

XHolds(sel_io, sel_ii, xv) ==
    /\ \A ind \in sel_io : mode_x(ind, xv)
    /\ \A ind \in sel_ii : dis_input_input_x(ind, xv)

InputsHold(t, sel_io, sel_ii, inp) ==
    /\ "const_size" \in b_tec => init_size_constraint(inp)
    /\ "const_input_input" \in b_tec =>
            \A car_input \in set_input_carriers : init_input_input(inp, car_input)
    /\ "const_min_part_load" \in b_tec => t1_init_min_part_load(inp)
    /\ \A ind \in sel_ii : dis_input_input_in(ind, inp)
    /\ \A ind \in sel_io : mode_in(t, ind, inp)

OutputsHold(sel_io, inp, out) ==
    /\ "const_input_output" \in b_tec =>
            \A car_output \in set_output_carriers : t1_init_input_output(inp, out, car_output)
    /\ \A ind \in sel_io : mode_out(ind, inp, out)

\* var_y and var_z with the values the disjuncts selected at t fix; a binary
\* variable no constraint fixes stays free
Fixed(var, ones, zeros) ==
    [one |-> var.one \cup ones, zero |-> var.zero \cup zeros]
Consistent(var) == var.one \cap var.zero = {}

FixedY(t, sel_io) ==
    IF pft = 4
    THEN Fixed(var_y, UNION {t4_y_one(t, ind) : ind \in sel_io},
                      UNION {t4_y_zero(t, ind) : ind \in sel_io})
    ELSE var_y
FixedZ(t, sel_io) ==
    IF pft = 4
    THEN Fixed(var_z, UNION {t4_z_one(t, ind) : ind \in sel_io},
                      UNION {t4_z_zero(t, ind) : ind \in sel_io})
    ELSE var_z

Feasible(t, sel_io, sel_ii, xv, inp, out) ==
    /\ IndicatorsHold(sel_io, sel_ii)
    /\ Consistent(FixedY(t, sel_io))
    /\ Consistent(FixedZ(t, sel_io))
    /\ XHolds(sel_io, sel_ii, xv)
    /\ InputsHold(t, sel_io, sel_ii, inp)
    /\ OutputsHold(sel_io, inp, out)

\* the solver fixes var_size
SolveBegin ==
    /\ pc = "built"
    /\ pc' = "solving"
    /\ var_size' \in SizeVals
    /\ UNCHANGED <<cfg, b_tec, warnings, SU_time, SD_time, SU_trajectory,
                   SD_trajectory, s_indicators, var_y, var_z, var_x, input,
                   output, ind_io, ind_ii, ind_rr, var_input_rr_full,
                   life_vars, wind_vars>>

\* the ramping constraints at t, by the variables they read
RampingIndicatorsHold(sel_rr) ==
    "disjunction_ramping_operation_on" \in b_tec => Disjunction(sel_rr)

RampingXHolds(t, sel_rr, xv) ==
    \A ind \in sel_rr : init_ramping_operation_on_x(t, ind, var_x[t - 1], xv)

RampingInputsHold(t, sel_rr, inp) ==
    /\ \A ind \in sel_rr :
          init_ramping_operation_on_in(t, ind, input[t - 1][main_input_carrier],
                                       inp[main_input_carrier])
    /\ ("const_ramping_up_rate" \in b_tec /\ "var_input_rr_full" \notin b_tec) =>
          RatesHold(Append(input, inp), set_t_performance)
    /\ "var_input_rr_full" \in b_tec =>
          RatesHold(link_full_resolution_to_clustered(
                        Append(input, inp), set_t_full, sequence, set_input_carriers),
                    set_t_full)

\* the solver assigns the next timestep so that every constraint holds there
SolveStep ==
    /\ pc = "solving"
    /\ LET t == Len(input) + 1 IN
       \E sel_io \in SUBSET (IF HasModeDisjuncts THEN s_indicators ELSE {}) :
       \E sel_ii \in SUBSET (IF "dis_input_input" \in b_tec THEN Range0(2) ELSE {}) :
       \E sel_rr \in SUBSET (IF "dis_ramping_operation_on" \in b_tec
                              THEN Range0(3) ELSE {}) :
         /\ IndicatorsHold(sel_io, sel_ii)
         /\ RampingIndicatorsHold(sel_rr)
         /\ Consistent(FixedY(t, sel_io))
         /\ Consistent(FixedZ(t, sel_io))
         /\ \E xv \in XVals :
              /\ XHolds(sel_io, sel_ii, xv)
              /\ RampingXHolds(t, sel_rr, xv)
              /\ \E main \in 0..InMax, others \in OtherInputs :
                 LET inp == [car \in set_input_carriers |->
                                IF car = main_input_carrier THEN main ELSE others[car]]
                 IN
                   /\ InputsHold(t, sel_io, sel_ii, inp)
                   /\ RampingInputsHold(t, sel_rr, inp)
                   /\ \E out \in OutVals :
                        /\ OutputsHold(sel_io, inp, out)
                        /\ var_x' = Append(var_x, xv)
                        /\ input' = Append(input, inp)
                        /\ output' = Append(output, out)
                        /\ ind_io' = Append(ind_io, sel_io)
                        /\ ind_ii' = Append(ind_ii, sel_ii)
                        /\ ind_rr' = Append(ind_rr, sel_rr)
                        /\ var_input_rr_full' =
                              IF "var_input_rr_full" \in b_tec
                              THEN link_full_resolution_to_clustered(
                                      Append(input, inp), set_t_full, sequence,
                                      set_input_carriers)
                              ELSE var_input_rr_full
                        /\ var_y' = FixedY(t, sel_io)
                        /\ var_z' = FixedZ(t, sel_io)
                        /\ pc' = IF t = Cardinality(set_t_performance)
                                 THEN "solved" ELSE "solving"
    /\ UNCHANGED <<cfg, b_tec, warnings, SU_time, SD_time, SU_trajectory,
                   SD_trajectory, s_indicators, var_size, life_vars, wind_vars>>

Next == Construct \/ SolveBegin \/ SolveStep

Spec == Init /\ [][Next]_vars

\* a technology from its creation to the construction of its block
NextLifecycle == Conv3Init \/ fit_technology_performance \/ Construct

SpecLifecycle == InitLifecycle /\ [][NextLifecycle]_vars

\* one call of the wind cost model: the options are set, then the indicators
\* are calculated and written
NextWind == set_options \/ calculate_indicators

SpecWind == InitWind /\ [][NextWind]_vars

\* ------------------------------------------------------------------ claims
\* the timesteps the solution has assigned; all of them once pc = "solved"
Assigned == 1..Len(input)
InSolution == pc \in {"solving", "solved"}
SizeTimesRated == RatMul(Rat(var_size), cfg.rated_power)
MainInput(t) == input[t][main_input_carrier]

\* the off branch is selected at t: var_x[t] = 0 and every disjunction the
\* block holds for t (mode, input ratio) has the indicator of its disjunct 0 set
OffAt(t) ==
    /\ "disjunction_input_output" \in b_tec \/ "disjunction_SUSD_traject" \in b_tec
          \/ "disjunction_input_input" \in b_tec
    /\ var_x[t] = 0
    /\ ("disjunction_input_output" \in b_tec \/ "disjunction_SUSD_traject" \in b_tec)
          => 0 \in ind_io[t]
    /\ "disjunction_input_input" \in b_tec => 0 \in ind_ii[t]

\* C1: for types 2, 3 and 4, at every timestep of a feasible solution exactly
\* one mode branch is selected: the indicators of the mode disjuncts sum to 1.
C1_ExactlyOneModeBranch ==
    (InSolution /\ cfg.performance_function_type \in {2, 3, 4}) =>
        \A t \in Assigned : Cardinality(ind_io[t]) = 1

C1_Witness ==
    /\ pc = "solved"
    /\ cfg.performance_function_type = 3
    /\ ind_io[1] = {0}
    /\ ind_io[2] = {2}
    /\ input[2][main_input_carrier] > 0

\* the standby carrier of the configuration, if standby power is configured
StandbyCarriers ==
    IF IsDisabled(cfg.standby_power) THEN {}
    ELSE IF cfg.standby_power_carrier = "-1" THEN {main_input_carrier}
    ELSE {cfg.standby_power_carrier}

\* C2: for every function type, with or without standby power: whenever the
\* technology is off at t, every input other than the standby carrier's and
\* every output is 0.
C2_OffMeansZero ==
    InSolution =>
        \A t \in Assigned :
            OffAt(t) =>
                /\ \A car \in set_input_carriers \ StandbyCarriers : input[t][car] = 0
                /\ \A car \in set_output_carriers : output[t][car] = 0

\* the technology is on at t: var_x[t] = 1 where the block has var_x; a block
\* without disjunctions (type 1 without standby power) has no off state
OnAt(t) ==
    IF "disjunction_input_output" \in b_tec \/ "disjunction_SUSD_traject" \in b_tec
          \/ "disjunction_input_input" \in b_tec
    THEN var_x[t] = XDen
    ELSE TRUE

\* the input the claim gives a carrier other than the main one when off
StandbyValue(car) ==
    IF car \in StandbyCarriers
    THEN RatMul(RatMul(cfg.standby_power, Rat(var_size)), cfg.rated_power)
    ELSE Zero

\* C3: ratio invariant: for every input carrier other than the main one,
\* input[t, car] = phi[car] * input[t, main] whenever the technology is on and
\* input[t, car] = 0 (the standby value for the standby carrier) whenever it
\* is off, with or without standby power, whichever carrier is the standby one.
C3_RatioInvariant ==
    InSolution =>
        \A t \in Assigned :
            \A car \in set_input_carriers \ {main_input_carrier} :
                /\ OnAt(t) => input[t][car] = cfg.phi[car] * MainInput(t)
                /\ OffAt(t) => RatEq(Rat(input[t][car]), StandbyValue(car))

\* C3 for the configurations whose standby carrier is the main input carrier
C3_RatioInvariant_MainStandby ==
    (InSolution /\ StandbyCarriers \subseteq {main_input_carrier}) =>
        \A t \in Assigned :
            \A car \in set_input_carriers \ {main_input_carrier} :
                /\ OnAt(t) => input[t][car] = cfg.phi[car] * MainInput(t)
                /\ OffAt(t) => RatEq(Rat(input[t][car]), StandbyValue(car))

\* C4: for every function type and every timestep, input[t, main] is at most
\* size * rated_power, whichever branch is selected at t.
C4_SizeConstraint ==
    InSolution =>
        \A t \in Assigned : RatLeq(Rat(MainInput(t)), SizeTimesRated)

\* a type 4 solution that is at full load after a startup
C4_Witness ==
    /\ pc = "solved"
    /\ cfg.performance_function_type = 4
    /\ var_size > 0
    /\ \E t \in Assigned :
            /\ \E ind \in ind_io[t] : BranchKind(ind) = "startup"
            /\ MainInput(t) > 0
    /\ \E t \in Assigned : RatEq(Rat(MainInput(t)), SizeTimesRated)

\* the series of a variable over the first n timesteps
MainInputSeries(n) == [t \in 1..n |-> input[t][main_input_carrier]]
OutputSeries(n, car) == [t \in 1..n |-> output[t][car]]

\* C5: type 1: output[t, car] = alpha1[car] * input[t, main] at every timestep
\* and for every output carrier; the minimum-part-load constraint is generated
\* if and only if min_part_load > 0; with alpha1 = 2 and min_part_load = 0 the
\* input series [0, 1, 2] yields the output series [0, 2, 4] and the block has
\* no part-load constraint.
C5_Type1 ==
    cfg.performance_function_type = 1 =>
        /\ pc # "new" =>
                ("const_min_part_load" \in b_tec <=> RatLess(Zero, cfg.min_part_load))
        /\ InSolution =>
                \A t \in Assigned : \A car \in set_output_carriers :
                    output[t][car] = cfg.fit[car].alpha1 * MainInput(t)
        /\ ( /\ InSolution
             /\ Len(input) >= 3
             /\ RatEq(cfg.min_part_load, Zero)
             /\ \A car \in set_output_carriers : cfg.fit[car].alpha1 = 2
             /\ MainInputSeries(3) = <<0, 1, 2>> )
           => /\ \A car \in set_output_carriers : OutputSeries(3, car) = <<0, 2, 4>>
              /\ "const_min_part_load" \notin b_tec

C5_Witness ==
    /\ pc = "solved"
    /\ cfg.performance_function_type = 1
    /\ RatEq(cfg.min_part_load, Zero)
    /\ \A car \in set_output_carriers : cfg.fit[car].alpha1 = 2
    /\ Len(input) >= 3
    /\ MainInputSeries(3) = <<0, 1, 2>>
    /\ \A car \in set_output_carriers : OutputSeries(3, car) = <<0, 2, 4>>
    /\ "const_min_part_load" \notin b_tec

Type2OnFeasibleWith(v) ==
    \E others \in OtherInputs, out \in OutVals :
        Feasible(Len(input) + 1, {1}, {}, XDen,
                 [car \in set_input_carriers |->
                    IF car = main_input_carrier THEN v ELSE others[car]],
                 out)

\* min_part_load = 0.3, alpha1 = 1, alpha2 = 0, rated_power = 1
Type2Scenario ==
    /\ cfg.performance_function_type = 2
    /\ RatEq(cfg.min_part_load, <<3, 10>>)
    /\ RatEq(cfg.rated_power, One)
    /\ IsDisabled(cfg.standby_power)
    /\ \A car \in set_output_carriers :
            cfg.fit[car].alpha1 = 1 /\ cfg.fit[car].alpha2 = 0

\* C7: type 2, on branch selected at t: min_part_load * size * rated_power <=
\* input[t, main] <= size * rated_power and output[t, car] = alpha1[car] *
\* input[t, main] + alpha2[car] * size * rated_power; with min_part_load = 0.3,
\* size = 10 and rated_power = 1 the on-mode inputs are exactly 3..10, and 2 is
\* not among them.
C7_Type2On ==
    /\ (InSolution /\ cfg.performance_function_type = 2) =>
          \A t \in Assigned :
              1 \in ind_io[t] =>
                  /\ RatLeq(RatMul(cfg.min_part_load, SizeTimesRated), Rat(MainInput(t)))
                  /\ RatLeq(Rat(MainInput(t)), SizeTimesRated)
                  /\ \A car \in set_output_carriers :
                        RatEq(Rat(output[t][car]),
                              RatAdd(Rat(cfg.fit[car].alpha1 * MainInput(t)),
                                     RatMul(Rat(cfg.fit[car].alpha2), SizeTimesRated)))
    /\ (pc = "solving" /\ Type2Scenario /\ var_size = 10) =>
          /\ \A v \in 0..InMax : Type2OnFeasibleWith(v) <=> v \in 3..10
          /\ ~Type2OnFeasibleWith(2)

C7_Witness ==
    /\ pc = "solved"
    /\ Type2Scenario
    /\ var_size = 10
    /\ ind_io[1] = {1} /\ MainInput(1) = 3
    /\ ind_io[2] = {1} /\ MainInput(2) = 10
    /\ ind_io[3] = {0}

\* the off branch the claim describes: the standby carrier at
\* standby_power * size * rated_power, every other input and every output 0
StandbyOffAssignment(inp, out) ==
    /\ \A car \in set_input_carriers :
          IF car \in StandbyCarriers
          THEN RatEq(Rat(inp[car]), RatMul(cfg.standby_power, SizeTimesRated))
          ELSE inp[car] = 0
    /\ \A car \in set_output_carriers : out[car] = 0

\* the off disjuncts (mode and input ratio) can be selected at the next timestep
OffFeasible ==
    \E main \in 0..InMax, others \in OtherInputs, out \in OutVals :
        LET inp == [car \in set_input_carriers |->
                        IF car = main_input_carrier THEN main ELSE others[car]]
        IN /\ Feasible(Len(input) + 1, {0}, {0}, 0, inp, out)
           /\ StandbyOffAssignment(inp, out)

\* C8: types 2 and 3 with standby power configured: the off branch is
\* satisfiable for every size > 0 and holds the standby carrier's input (the
\* main input carrier unless standby_power_carrier names another) at
\* standby_power * size * rated_power, every other input and every output at 0.
C8_StandbyOff ==
    ( /\ cfg.performance_function_type \in {2, 3}
      /\ ~IsDisabled(cfg.standby_power)
      /\ var_size > 0 )
    => /\ pc = "solving" => OffFeasible
       /\ InSolution =>
            \A t \in Assigned :
                OffAt(t) => StandbyOffAssignment(input[t], output[t])

\* C8 for the configurations whose standby carrier is the main input carrier
C8_StandbyOff_MainStandby ==
    ( /\ cfg.performance_function_type \in {2, 3}
      /\ ~IsDisabled(cfg.standby_power)
      /\ cfg.standby_power_carrier \in {"-1", main_input_carrier}
      /\ var_size > 0 )
    => /\ pc = "solving" => OffFeasible
       /\ InSolution =>
            \A t \in Assigned :
                OffAt(t) => StandbyOffAssignment(input[t], output[t])

\* the breakpoints and the coefficients of the fit, as configured
Breakpoints == cfg.fit[CHOOSE car \in set_output_carriers : TRUE].bp_x
Slope(car, i) == cfg.fit[car].alpha1[i]
Intercept(car, i) == cfg.fit[car].alpha2[i]

\* C9: type 3 with N breakpoints: every timestep has one off branch and N - 1
\* on branches; when on branch i is selected at t the main input lies between
\* bp[i-1] and bp[i] times size * rated_power and is at least min_part_load *
\* size * rated_power, and every output is slope(i) * input + intercept(i) *
\* size * rated_power.  (Sequences are 1-based: bp[i-1], bp[i] of the claim are
\* Breakpoints[i], Breakpoints[i + 1].)
C9_Type3Segments ==
    cfg.performance_function_type = 3 =>
        /\ pc \in {"built", "solving", "solved"} =>
              /\ s_indicators = 0..(Len(Breakpoints) - 1)
              /\ Cardinality(s_indicators \ {0}) = Len(Breakpoints) - 1
        /\ InSolution =>
              \A t \in Assigned : \A i \in ind_io[t] \ {0} :
                  /\ i \in 1..(Len(Breakpoints) - 1)
                  /\ RatLeq(RatMul(Breakpoints[i], SizeTimesRated), Rat(MainInput(t)))
                  /\ RatLeq(Rat(MainInput(t)), RatMul(Breakpoints[i + 1], SizeTimesRated))
                  /\ RatLeq(RatMul(cfg.min_part_load, SizeTimesRated), Rat(MainInput(t)))
                  /\ \A car \in set_output_carriers :
                        RatEq(Rat(output[t][car]),
                              RatAdd(Rat(Slope(car, i) * MainInput(t)),
                                     RatMul(Rat(Intercept(car, i)), SizeTimesRated)))

\* a three-breakpoint solution that uses both segments and the off branch,
\* the second segment at full load, where the segments' outputs differ
C9_Witness ==
    /\ pc = "solved"
    /\ cfg.performance_function_type = 3
    /\ Len(Breakpoints) = 3
    /\ var_size > 0
    /\ \E t \in Assigned : ind_io[t] = {0}
    /\ \E t \in Assigned : ind_io[t] = {1} /\ MainInput(t) > 0
    /\ \E t \in Assigned :
          /\ ind_io[t] = {2}
          /\ RatEq(Rat(MainInput(t)), SizeTimesRated)
          /\ \E car \in set_output_carriers :
                output[t][car] # Slope(car, 1) * MainInput(t) + Intercept(car, 1) * var_size

\* the block of a type 4 technology with a startup time has been built
StartupBuilt ==
    /\ cfg.performance_function_type = 4
    /\ cfg.SU_time >= 1
    /\ pc \in {"built", "solving", "solved"}

\* the k-th value of the startup trajectory is k * min_part_load / (SU_time + 1)
StartupValues ==
    /\ Len(SU_trajectory) = cfg.SU_time
    /\ \A k \in 1..cfg.SU_time :
          RatEq(SU_trajectory[k],
                <<k * Num(cfg.min_part_load), Den(cfg.min_part_load) * (cfg.SU_time + 1)>>)

StartupStrictlyIncreasing ==
    \A k \in 1..(Len(SU_trajectory) - 1) :
        RatLess(SU_trajectory[k], SU_trajectory[k + 1])

StartupBounded ==
    \A k \in 1..Len(SU_trajectory) : RatLeq(SU_trajectory[k], cfg.min_part_load)

\* SU_time = 2, min_part_load = 0.4: the trajectory is [0.4/3, 0.8/3]
StartupScenario ==
    (cfg.SU_time = 2 /\ RatEq(cfg.min_part_load, <<4, 10>>)) =>
        /\ Len(SU_trajectory) = 2
        /\ RatEq(SU_trajectory[1], <<4, 30>>)
        /\ RatEq(SU_trajectory[2], <<8, 30>>)

\* C10 as stated: type 4, any SU_time >= 1 and any min_part_load in [0, 1]:
\* the startup trajectory has length SU_time, its k-th value is
\* k * min_part_load / (SU_time + 1), the values are strictly increasing and at
\* most min_part_load; SU_time = 2, min_part_load = 0.4 gives [0.4/3, 0.8/3].
C10_StartupTrajectory_AsStated ==
    StartupBuilt =>
        /\ StartupValues
        /\ StartupStrictlyIncreasing
        /\ StartupBounded
        /\ StartupScenario

\* C10: type 4, any SU_time >= 1 and any min_part_load in [0, 1]: the startup
\* trajectory has length SU_time, its k-th value is
\* k * min_part_load / (SU_time + 1) and at most min_part_load; the values are
\* strictly increasing when min_part_load > 0 and all 0 when min_part_load = 0;
\* SU_time = 2, min_part_load = 0.4 gives [0.4/3, 0.8/3].
C10_StartupTrajectory ==
    StartupBuilt =>
        /\ StartupValues
        /\ RatLess(Zero, cfg.min_part_load) => StartupStrictlyIncreasing
        /\ RatEq(cfg.min_part_load, Zero) =>
              \A k \in 1..Len(SU_trajectory) : RatEq(SU_trajectory[k], Zero)
        /\ StartupBounded
        /\ StartupScenario

\* the scenario's block is built: two startup values below min_part_load = 0.4
C10_Witness ==
    /\ StartupBuilt
    /\ cfg.SU_time = 2
    /\ RatEq(cfg.min_part_load, <<4, 10>>)
    /\ Len(SU_trajectory) = 2
    /\ RatLess(SU_trajectory[1], SU_trajectory[2])

\* the block of a type 4 technology with startup and shutdown times is built
StartupShutdownBuilt ==
    /\ cfg.performance_function_type = 4
    /\ cfg.SU_time >= 1
    /\ cfg.SD_time >= 1
    /\ pc \in {"built", "solving", "solved"}

\* the values of a trajectory, each by its reduced fraction
Reduced(r) ==
    CHOOSE q \in {<<n, d>> : n \in 0..Num(r), d \in 1..Den(r)} :
        /\ RatEq(q, r)
        /\ \A d \in 1..(q[2] - 1) : (Num(r) * d) % Den(r) # 0
ValueSet(seq) == {Reduced(seq[i]) : i \in 1..Len(seq)}

ShutdownStrictlyDecreasing ==
    \A j \in 1..(Len(SD_trajectory) - 1) :
        RatLess(SD_trajectory[j + 1], SD_trajectory[j])

\* the j-th shutdown value is (SD_time + 1 - j) * min_part_load / (SD_time + 1)
ShutdownValues ==
    /\ Len(SD_trajectory) = cfg.SD_time
    /\ \A j \in 1..cfg.SD_time :
          RatEq(SD_trajectory[j],
                <<(cfg.SD_time + 1 - j) * Num(cfg.min_part_load),
                  Den(cfg.min_part_load) * (cfg.SD_time + 1)>>)

\* C11 as stated: type 4 with SU_time >= 1 and SD_time >= 1, whatever the two
\* values: the shutdown trajectory consists of the same set of values as the
\* startup trajectory, in strictly decreasing order.
C11_ShutdownTrajectory_AsStated ==
    StartupShutdownBuilt =>
        /\ ValueSet(SD_trajectory) = ValueSet(SU_trajectory)
        /\ ShutdownStrictlyDecreasing

\* C11: type 4 with SU_time >= 1 and SD_time >= 1: the shutdown trajectory has
\* SD_time values, the j-th being (SD_time + 1 - j) * min_part_load /
\* (SD_time + 1), in decreasing order (strictly when min_part_load > 0); it
\* consists of the same set of values as the startup trajectory when
\* SD_time = SU_time.
C11_ShutdownTrajectory ==
    StartupShutdownBuilt =>
        /\ ShutdownValues
        /\ RatLess(Zero, cfg.min_part_load) => ShutdownStrictlyDecreasing
        /\ \A j \in 1..(Len(SD_trajectory) - 1) :
              RatLeq(SD_trajectory[j + 1], SD_trajectory[j])
        /\ cfg.SD_time = cfg.SU_time =>
              /\ ValueSet(SD_trajectory) = ValueSet(SU_trajectory)
              /\ \A j \in 1..cfg.SD_time :
                    RatEq(SD_trajectory[j], SU_trajectory[cfg.SU_time + 1 - j])

\* equal startup and shutdown times of 2: the shutdown trajectory is the
\* startup trajectory reversed
C11_Witness ==
    /\ StartupShutdownBuilt
    /\ cfg.SU_time = 2
    /\ cfg.SD_time = 2
    /\ RatLess(Zero, cfg.min_part_load)
    /\ Len(SD_trajectory) = 2
    /\ RatLess(SD_trajectory[2], SD_trajectory[1])
    /\ RatEq(SD_trajectory[1], SU_trajectory[2])

\* the branch selected at t in a type 4 solution and its offset in its kind
BranchAt(t) == CHOOSE ind \in ind_io[t] : TRUE
KindAt(t) == BranchKind(BranchAt(t))
StartupAt(t, k) == KindAt(t) = "startup" /\ BranchAt(t) = k
ShutdownAt(t, j) == KindAt(t) = "shutdown" /\ ind_SD(BranchAt(t)) = j

\* the timestep after t on the circular full index
NextStep(t) == (t % NumTimesteps) + 1

\* the branch sequence follows Off -> Startup(1..SU) -> On -> Shutdown(1..SD)
\* -> Off at the step from t to the timestep after it
CycleStep(t) ==
    /\ \A k \in 1..(SU_time - 1) : StartupAt(t, k) => StartupAt(NextStep(t), k + 1)
    /\ (SU_time >= 1 /\ StartupAt(t, SU_time)) => KindAt(NextStep(t)) = "on"
    /\ \A j \in 1..(SD_time - 1) : ShutdownAt(t, j) => ShutdownAt(NextStep(t), j + 1)
    /\ (SD_time >= 1 /\ ShutdownAt(t, SD_time)) => KindAt(NextStep(t)) = "off"
    /\ (SU_time >= 1 /\ KindAt(t) # "on" /\ KindAt(NextStep(t)) = "on")
          => StartupAt(t, SU_time)
    /\ (SD_time >= 1 /\ KindAt(t) = "on" /\ KindAt(NextStep(t)) # "on")
          => ShutdownAt(NextStep(t), 1)

Type4Solved ==
    /\ pc = "solved"
    /\ cfg.performance_function_type = 4
    /\ \A t \in Assigned : Cardinality(ind_io[t]) = 1

\* C12: type 4: the branch sequence of every feasible solution follows the
\* cycle Off -> Startup(1..SU) -> On -> Shutdown(1..SD) -> Off over the
\* circular full index: startup offset k < SU is followed by offset k + 1,
\* offset SU by an on branch, shutdown offset j < SD by offset j + 1, offset SD
\* by off; on is entered only after a complete startup trajectory and left
\* only into a complete shutdown trajectory.
C12_BranchCycle ==
    Type4Solved => \A t \in Assigned : CycleStep(t)

\* var_y and var_z can be completed so that var_y[s] = 1 exactly where var_x
\* rises at s and var_z[s] = 1 exactly where it falls, on the circular index
IndicatorsAnchored ==
    \A t \in Assigned :
        LET s == NextStep(t) IN
        CASE var_x[s] > var_x[t] ->
                s \notin var_y.zero /\ s \notin var_z.one
          [] var_x[s] < var_x[t] ->
                s \notin var_y.one /\ s \notin var_z.zero
          [] OTHER ->
                s \notin var_y.one /\ s \notin var_z.one

\* C12 for the solutions whose startup and shutdown indicators are anchored
\* where the on-indicator changes
C12_BranchCycle_Anchored ==
    (Type4Solved /\ IndicatorsAnchored) => \A t \in Assigned : CycleStep(t)

\* output[t, car] = slope(i) * input[t, main] + intercept(i) * size * rated_power
OutputOfSegment(t, i) ==
    \A car \in set_output_carriers :
        RatEq(Rat(output[t][car]),
              RatAdd(Rat(Slope(car, i) * MainInput(t)),
                     RatMul(Rat(Intercept(car, i)), SizeTimesRated)))

\* every on disjunct of type 4 accepts what the on disjunct of its segment
\* accepts in type 3, over the values of the model
OnBranchAsType3 ==
    \A ind \in {k \in s_indicators : BranchKind(k) = "on"} :
      LET i == ind - (SU_time + SD_time) IN
      /\ i \in 1..(Len(Breakpoints) - 1)
      /\ \A xv \in XVals, main \in 0..InMax, others \in OtherInputs, out \in OutVals :
            LET inp == [car \in set_input_carriers |->
                            IF car = main_input_carrier THEN main ELSE others[car]]
            IN (t4_dis_x(ind, xv) /\ t4_dis_in(ind, inp) /\ t4_dis_out(ind, inp, out))
               <=> (t3_dis_x(i, xv) /\ t3_dis_in(i, inp) /\ t3_dis_out(i, inp, out))

\* C13: type 4: a startup branch k selected at t gives x[t] = 0, input[t, main]
\* = size * SU_trajectory[k] and the output of the first segment's fit; a
\* shutdown branch j gives x[t] = 0, input[t, main] = size * SD_trajectory[j]
\* and again the first segment's fit; the on branches impose the type 3
\* segment constraints with x[t] = 1.
C13_Type4Branches ==
    cfg.performance_function_type = 4 =>
        /\ InSolution =>
            \A t \in Assigned : \A ind \in ind_io[t] :
                /\ BranchKind(ind) = "startup" =>
                      /\ ind \in 1..cfg.SU_time
                      /\ var_x[t] = 0
                      /\ RatEq(Rat(MainInput(t)),
                               RatMul(Rat(var_size), SU_trajectory[ind]))
                      /\ OutputOfSegment(t, 1)
                /\ BranchKind(ind) = "shutdown" =>
                      /\ ind - SU_time \in 1..cfg.SD_time
                      /\ var_x[t] = 0
                      /\ RatEq(Rat(MainInput(t)),
                               RatMul(Rat(var_size), SD_trajectory[ind - SU_time]))
                      /\ OutputOfSegment(t, 1)
                /\ BranchKind(ind) = "on" =>
                      LET i == ind - (SU_time + SD_time) IN
                      /\ i \in 1..(Len(Breakpoints) - 1)
                      /\ var_x[t] = XDen
                      /\ RatLeq(RatMul(Breakpoints[i], SizeTimesRated), Rat(MainInput(t)))
                      /\ RatLeq(Rat(MainInput(t)), RatMul(Breakpoints[i + 1], SizeTimesRated))
                      /\ RatLeq(RatMul(cfg.min_part_load, SizeTimesRated), Rat(MainInput(t)))
                      /\ OutputOfSegment(t, i)
        /\ (pc = "solving" /\ Len(input) = 0) => OnBranchAsType3

\* a solution with a startup, an on and a shutdown timestep whose startup
\* output differs from what the second segment's fit would give
C13_Witness ==
    /\ pc = "solved"
    /\ cfg.performance_function_type = 4
    /\ var_size > 0
    /\ \E t \in Assigned :
          /\ KindAt(t) = "startup"
          /\ MainInput(t) > 0
          /\ \E car \in set_output_carriers :
                output[t][car] # Slope(car, 2) * MainInput(t)
                                  + Intercept(car, 2) * var_size * Ceil(cfg.rated_power)
    /\ \E t \in Assigned : KindAt(t) = "on"
    /\ \E t \in Assigned : KindAt(t) = "shutdown" /\ MainInput(t) > 0

\* the index ((n mod T) + 1) on the circular full series
Circular(n) == (n % NumTimesteps) + 1

\* C14: full series 1..T, SU_time, SD_time <= T: every var_y / var_z index the
\* type 4 branches refer to lies in 1..T and wraps modulo T: startup branch k
\* at t pins y[((t + SU - k) mod T) + 1] = 1 and z there to 0; shutdown branch
\* j at t pins z[((t - j) mod T) + 1] = 1 and y there to 0; the off branch at t
\* pins y to 0 at the SU indices after t and z to 0 at the SD indices ending
\* at t, circularly.
C14_CircularIndices ==
    ( /\ cfg.performance_function_type = 4
      /\ cfg.dynamics
      /\ cfg.SU_time <= NumTimesteps
      /\ cfg.SD_time <= NumTimesteps )
    => /\ pc # "error"
       /\ var_y.one \cup var_y.zero \cup var_z.one \cup var_z.zero \subseteq set_t_full
       /\ InSolution =>
            \A t \in Assigned : \A ind \in ind_io[t] :
                /\ BranchKind(ind) = "startup" =>
                      /\ Circular(t + SU_time - ind) \in var_y.one
                      /\ Circular(t + SU_time - ind) \in var_z.zero
                /\ BranchKind(ind) = "shutdown" =>
                      /\ Circular(t - (ind - SU_time)) \in var_z.one
                      /\ Circular(t - (ind - SU_time)) \in var_y.zero
                /\ BranchKind(ind) = "off" =>
                      /\ \A i \in 1..SU_time : Circular(t + i - 1) \in var_y.zero
                      /\ \A j \in 1..SD_time : Circular(t - j) \in var_z.zero

\* a solution with a startup branch whose index wraps past the end of the
\* series and a shutdown branch whose index wraps before its start
C14_Witness ==
    /\ pc = "solved"
    /\ cfg.performance_function_type = 4
    /\ \E t \in Assigned :
          /\ KindAt(t) = "startup"
          /\ t + SU_time - BranchAt(t) >= NumTimesteps
          /\ Circular(t + SU_time - BranchAt(t)) \in var_y.one
    /\ \E t \in Assigned :
          /\ KindAt(t) = "shutdown"
          /\ ind_SD(BranchAt(t)) > t
          /\ Circular(t - ind_SD(BranchAt(t))) \in var_z.one

\* the number of branches with negative SU_time / SD_time counted as 0
BranchCount ==
    1 + Max(cfg.SU_time, 0) + Max(cfg.SD_time, 0) + (Len(Breakpoints) - 1)

\* the off branch and the on branch of every segment are among the disjuncts
OffAndEverySegment ==
    /\ \E ind \in s_indicators : BranchKind(ind) = "off"
    /\ \A i \in 1..(Len(Breakpoints) - 1) :
          \E ind \in s_indicators : BranchKind(ind) = "on" /\ ind_bpx(ind) = i

Type4Built ==
    /\ cfg.performance_function_type = 4
    /\ cfg.dynamics
    /\ pc # "new"

\* C15: type 4 with SU_time <= 0 and SD_time <= 0, negative values included,
\* is accepted with a warning only: negative SU_time / SD_time count as 0, so
\* every timestep has 1 + max(SU_time, 0) + max(SD_time, 0) + (breakpoints - 1)
\* branches, and in the degenerate case the off branch and every on-segment
\* branch of type 3 is present.
C15_DegenerateTrajectories ==
    Type4Built =>
        /\ Cardinality(s_indicators) = BranchCount
        /\ (cfg.SU_time <= 0 /\ cfg.SD_time <= 0) =>
              /\ pc # "error"
              /\ warnings # {}
              /\ OffAndEverySegment

\* C15 for the configurations in which at most one of SU_time, SD_time is
\* negative and the other one is positive, or none is negative
C15_DegenerateTrajectories_OneNegative ==
    (Type4Built /\ (cfg.SU_time > 0 \/ cfg.SD_time > 0
                    \/ (cfg.SU_time = 0 /\ cfg.SD_time = 0))) =>
        /\ Cardinality(s_indicators) = BranchCount
        /\ OffAndEverySegment
        /\ (cfg.SU_time <= 0 /\ cfg.SD_time <= 0) => (pc # "error" /\ warnings # {})

\* ramping is enabled by the configuration
RampingConfigured ==
    "ramping_time" \in cfg.dynamics_keys /\ cfg.ramping_time # -1

\* the bound R: ref_size / ramping_time if ref_size is configured and is not
\* -1, otherwise size / ramping_time
BoundR ==
    IF "ref_size" \in cfg.dynamics_keys /\ cfg.ref_size # -1
    THEN <<cfg.ref_size, cfg.ramping_time>>
    ELSE <<var_size, cfg.ramping_time>>

\* -bound <= now - before <= bound
WithinRate(before, now, bound) ==
    /\ RatLeq(Rat(now - before), bound)
    /\ RatLeq(Rat(before - now), bound)

\* the pairs (t - 1, t) of the native index a rate constraint is generated for
RatePairsNative ==
    IF "const_ramping_up_rate" \in b_tec /\ "var_input_rr_full" \notin b_tec
    THEN {t \in Assigned : t > 1}
    ELSE IF "dis_ramping_operation_on" \in b_tec
    THEN {t \in Assigned : t > 1 /\ 0 \in ind_rr[t]}
    ELSE {}

\* the pairs (t - 1, t) of the full index a rate constraint is generated for
RatePairsFull ==
    IF "var_input_rr_full" \in b_tec
    THEN {t \in DOMAIN var_input_rr_full : t > 1 /\ (t - 1) \in DOMAIN var_input_rr_full}
    ELSE {}

\* C16: with ramping enabled the bound R is ref_size / ramping_time if ref_size
\* is configured and differs from -1, otherwise size / ramping_time, and every
\* rate constraint generated for a pair (t - 1, t) enforces
\* -R <= input[t, main] - input[t - 1, main] <= R.
C16_RampingBound ==
    (RampingConfigured /\ InSolution) =>
        /\ \A t \in RatePairsNative :
              WithinRate(MainInput(t - 1), MainInput(t), BoundR)
        /\ \A t \in RatePairsFull :
              WithinRate(var_input_rr_full[t - 1][main_input_carrier],
                         var_input_rr_full[t][main_input_carrier], BoundR)
        /\ (pc = "solved" /\ "var_input_rr_full" \in b_tec) =>
              RatePairsFull = {t \in set_t_full : t > 1}

\* a solution under a fixed reference size that differs from the size chosen
C16_Witness ==
    /\ pc = "solved"
    /\ RampingConfigured
    /\ "ref_size" \in cfg.dynamics_keys
    /\ cfg.ref_size # -1
    /\ cfg.ref_size # var_size
    /\ var_size > 0
    /\ RatePairsNative = {t \in Assigned : t > 1}
    /\ \A t \in Assigned : MainInput(t) > 0

\* no fixed reference size is configured
NoReferenceSize ==
    ~("ref_size" \in cfg.dynamics_keys /\ cfg.ref_size # -1)

\* size * rated_power / ramping_time
CapacityRate ==
    <<Num(SizeTimesRated), Den(SizeTimesRated) * cfg.ramping_time>>

\* C17: ramping enabled, no fixed reference size: for every t > 1 the
\* integer-coupled mode does not exempt, |input[t, main] - input[t - 1, main]|
\* <= size * rated_power / ramping_time, for every rated_power > 0.
C17_RampingSafety ==
    (RampingConfigured /\ NoReferenceSize /\ InSolution) =>
        /\ \A t \in RatePairsNative :
              WithinRate(MainInput(t - 1), MainInput(t), CapacityRate)
        /\ \A t \in RatePairsFull :
              WithinRate(var_input_rr_full[t - 1][main_input_carrier],
                         var_input_rr_full[t][main_input_carrier], CapacityRate)

\* C17 for the configurations with rated_power >= 1
C17_RampingSafety_RatedAtLeastOne ==
    (RampingConfigured /\ NoReferenceSize /\ InSolution
        /\ RatLeq(One, cfg.rated_power)) =>
        /\ \A t \in RatePairsNative :
              WithinRate(MainInput(t - 1), MainInput(t), CapacityRate)
        /\ \A t \in RatePairsFull :
              WithinRate(var_input_rr_full[t - 1][main_input_carrier],
                         var_input_rr_full[t][main_input_carrier], CapacityRate)

\* the integer-coupled mode is configured
IntegerCoupled ==
    /\ RampingConfigured
    /\ cfg.performance_function_type # 1
    /\ "ramping_const_int" \in cfg.dynamics_keys
    /\ cfg.ramping_const_int = 1

\* C18: integer-coupled ramping (ramping_const_int = 1, type other than 1): at
\* every timestep t > 1 exactly one of three branches holds: steady (x[t] =
\* x[t-1] and -R <= input[t, main] - input[t-1, main] <= R), startup (x[t] -
\* x[t-1] = 1) or shutdown (x[t] - x[t-1] = -1), the last two without a rate
\* bound; so a change of the main input larger than R is feasible only where
\* the on-indicator changes.
C18_IntegerCoupled ==
    /\ (IntegerCoupled /\ pc \in {"built", "solving", "solved"}) =>
          /\ "dis_ramping_operation_on" \in b_tec
          /\ "disjunction_ramping_operation_on" \in b_tec
          /\ "const_ramping_up_rate" \notin b_tec
    /\ (IntegerCoupled /\ InSolution) =>
          \A t \in Assigned : t > 1 =>
              /\ Cardinality(ind_rr[t]) = 1
              /\ ind_rr[t] \subseteq {0, 1, 2}
              /\ 0 \in ind_rr[t] =>
                    /\ var_x[t] = var_x[t - 1]
                    /\ WithinRate(MainInput(t - 1), MainInput(t), BoundR)
              /\ 1 \in ind_rr[t] => var_x[t] - var_x[t - 1] = XDen
              /\ 2 \in ind_rr[t] => var_x[t] - var_x[t - 1] = -XDen
              /\ ~WithinRate(MainInput(t - 1), MainInput(t), BoundR) =>
                    var_x[t] # var_x[t - 1]

\* a solution with a startup step larger than R and a steady step within R
C18_Witness ==
    /\ pc = "solved"
    /\ IntegerCoupled
    /\ var_size > 0
    /\ \E t \in Assigned :
          /\ t > 1
          /\ ind_rr[t] = {1}
          /\ ~WithinRate(MainInput(t - 1), MainInput(t), BoundR)
    /\ \E t \in Assigned :
          /\ t > 1
          /\ ind_rr[t] = {0}
          /\ var_x[t] = XDen
          /\ MainInput(t) # MainInput(t - 1)

\* ramping is configured without the coupling to the on-indicator
UnconstrainedByMode == RampingConfigured /\ ~IntegerCoupled

\* the sequence from full to representative timesteps the configuration gives
\* for its clustering method
ConfiguredSequence ==
    IF cfg.typicaldays_method = 1 THEN cfg.k_means_sequence ELSE cfg.sequence

\* C19: ramping not coupled to the mode: without time aggregation (typical
\* days N = 0) the rate bound applies to every consecutive pair of the native
\* index and no auxiliary variable is created; with aggregation an auxiliary
\* input series over the full index is created with input_full[t, car] =
\* input[sequence[t], car] for every full timestep and input carrier, and the
\* bound applies to every consecutive full pair (t - 1, t), t > 1:
\* |input[sequence[t], main] - input[sequence[t - 1], main]| <= R.
C19_UnconstrainedByMode ==
    /\ (UnconstrainedByMode /\ cfg.typicaldays_N = 0) =>
          /\ pc \in {"built", "solving", "solved"} =>
                /\ "var_input_rr_full" \notin b_tec
                /\ "const_ramping_down_rate" \in b_tec
                /\ "const_ramping_up_rate" \in b_tec
          /\ var_input_rr_full = <<>>
          /\ InSolution =>
                \A t \in Assigned : t > 1 =>
                    WithinRate(MainInput(t - 1), MainInput(t), BoundR)
    /\ (UnconstrainedByMode /\ cfg.typicaldays_N # 0) =>
          /\ pc \in {"built", "solving", "solved"} =>
                /\ "var_input_rr_full" \in b_tec
                /\ "const_link_full_resolution_rr" \in b_tec
                /\ "const_ramping_down_rate" \in b_tec
                /\ "const_ramping_up_rate" \in b_tec
          /\ InSolution =>
                \A t \in set_t_full :
                    ConfiguredSequence[t] \in Assigned =>
                        /\ t \in DOMAIN var_input_rr_full
                        /\ \A car \in set_input_carriers :
                              var_input_rr_full[t][car]
                                  = input[ConfiguredSequence[t]][car]
          /\ pc = "solved" =>
                /\ DOMAIN var_input_rr_full = set_t_full
                /\ \A t \in set_t_full : t > 1 =>
                      WithinRate(input[ConfiguredSequence[t - 1]][main_input_carrier],
                                 input[ConfiguredSequence[t]][main_input_carrier],
                                 BoundR)

\* an aggregated solution whose representative timesteps differ, linked to
\* the full series by the technology's own sequence
C19_Witness ==
    /\ pc = "solved"
    /\ UnconstrainedByMode
    /\ cfg.typicaldays_N # 0
    /\ cfg.typicaldays_method = 2
    /\ cfg.sequence # cfg.k_means_sequence
    /\ var_size > 0
    /\ MainInput(1) # MainInput(2)
    /\ DOMAIN var_input_rr_full = set_t_full
    /\ \E t \in set_t_full :
          t > 1 /\ var_input_rr_full[t][main_input_carrier]
                      # var_input_rr_full[t - 1][main_input_carrier]

\* representative-period values: one record of carrier values per timestep
RepresentativeValues ==
    {[p \in set_t_clustered |->
        [car \in set_input_carriers |->
            IF car = main_input_carrier THEN main[p] ELSE 2 * main[p] + 1]] :
        main \in [set_t_clustered -> 0..1]}

\* the value of representative timestep p read back from the full timestep t
ReadBack(full, t) == full[t]

\* expanding rep along seq and reading back from any full timestep mapped to
\* p gives rep[p]; the expansion is one value per full timestep and carrier
RoundTrip(rep, seq) ==
    LET full == link_full_resolution_to_clustered(rep, set_t_full, seq,
                                                  set_input_carriers)
    IN /\ DOMAIN full = set_t_full
       /\ \A t \in set_t_full : DOMAIN full[t] = set_input_carriers
       /\ \A t \in set_t_full, car \in set_input_carriers :
             full[t][car] = rep[seq[t]][car]
       /\ \A p \in set_t_clustered : \A t \in set_t_full :
             seq[t] = p => ReadBack(full, t) = rep[p]

RequestsOutputSizing ==
    /\ tec_data.size_based_on = "output"
    /\ tec_data.performance_function_type \in 1..4

\* nothing of the fit is stored and the block holds no component
NothingStoredOrEmitted ==
    /\ DOMAIN processed_coeff = {}
    /\ pc = "new"
    /\ b_tec = {}

\* C21: a technology whose configuration requests size_based_on = "output"
\* fails with an error during performance fitting: it is never fitted, no fit
\* coefficients or input ratios are stored and no constraint is emitted.
C21_OutputSizingFails ==
    RequestsOutputSizing =>
        /\ life_pc \in {"configured", "initialised", "fit_error"}
        /\ life_pc # "configured" /\ life_pc # "initialised" => life_pc = "fit_error"
        /\ NothingStoredOrEmitted

\* what the code does with the request: Conv3.__init__ sets size_based_on to
\* "input" whatever was requested, so the check of the fit never raises
C21_OutputSizingFails_Overridden ==
    /\ life_pc # "configured" => component_options.size_based_on = "input"
    /\ life_pc # "fit_error"

\* the class the claim names for each supported type (3 and 4 share one)
ClassOfType ==
    [p \in 1..4 |->
        IF p = 1 THEN "FitGenericTecTypeType1"
        ELSE IF p = 2 THEN "FitGenericTecTypeType2"
        ELSE "FitGenericTecTypeType34"]

\* C22: creating a Conv3 with performance_function_type outside {1, 2, 3, 4}
\* raises at construction and no fitting class is assigned; for each value in
\* {1, 2, 3, 4} construction succeeds and selects the fitting class of that
\* type, types 3 and 4 sharing one.
C22_FunctionTypeChecked ==
    life_pc # "configured" =>
        LET p == tec_data.performance_function_type
        IN /\ p \notin 1..4 =>
                /\ life_pc = "init_error"
                /\ fitting_class = "None"
                /\ NothingStoredOrEmitted
           /\ p \in 1..4 =>
                /\ life_pc # "init_error"
                /\ fitting_class = ClassOfType[p]

\* the constructor has raised for function type 5
C22_Witness ==
    /\ life_pc = "init_error"
    /\ tec_data.performance_function_type = 5
    /\ fitting_class = "None"


\* the call has ended in an error
WindRaised == wind_pc \in {"KeyError", "ValueError"}

\* the options of the test: a source, a terrain of the two and the capacity
OptionsOfTest(sources) ==
    /\ {"terrain", "nameplate_capacity_MW", "source"} \subseteq DOMAIN wind_given
    /\ wind_given.source \in sources
    /\ wind_given.terrain \in {"Onshore", "Offshore"}

\* C23: the wind cost model accepts source "IRENA" and source "NREL" for the
\* terrains "Onshore" and "Offshore" with nameplate_capacity_MW given: setting
\* the options and writing the technology data raises no error for any of
\* these combinations.
C23_SourcesAccepted ==
    OptionsOfTest({"IRENA", "NREL"}) => ~WindRaised

\* the same for the source "IRENA" alone, where the data is written
C23_SourcesAccepted_Irena ==
    OptionsOfTest({"IRENA"}) =>
        /\ ~WindRaised
        /\ wind_pc = "calculated" =>
              DOMAIN json_data = {"unit_CAPEX", "OPEX_fixed", "OPEX_variable",
                                  "lifetime", "size_is_int"}

\* C24: setting the options without "terrain" or without
\* "nameplate_capacity_MW" raises KeyError in _set_options, before the source
\* is evaluated and before any financial indicator is calculated or written to
\* the json template.
C24_RequiredOptions ==
    ( /\ wind_pc \notin {"idle", "created"}
      /\ \/ "terrain" \notin DOMAIN wind_given
         \/ "nameplate_capacity_MW" \notin DOMAIN wind_given )
    => /\ wind_pc = "KeyError"
       /\ "source" \notin DOMAIN wind_options
       /\ wind_units = NoEntries
       /\ financial_indicators = NoEntries
       /\ json_data = NoEntries

\* the terrain is given, the capacity is not, and the call ended in KeyError
\* although the source given is not an available one
C24_Witness ==
    /\ wind_pc = "KeyError"
    /\ "terrain" \in DOMAIN wind_given
    /\ "nameplate_capacity_MW" \notin DOMAIN wind_given
    /\ "source" \in DOMAIN wind_given
    /\ wind_given.source = "NREL"
    /\ DOMAIN wind_options = {"terrain"}


\* type 2 or 3 whose var_x is the continuous one conv3.py declares
ContinuousX == InSolution /\ pft \in {2, 3} /\ VarXDeclaredHere

\* C25: for types 2 and 3, although var_x is declared continuous on [0, 1],
\* every feasible solution has x[t] in {0, 1} at every timestep, x[t] = 0
\* exactly when the off branch is selected and x[t] = 1 exactly when an on
\* branch is selected; with standby power configured the input-ratio
\* disjunction selects its off branch at t if and only if the mode disjunction
\* does.
C25_IndicatorIntegral ==
    ContinuousX =>
        \A t \in Assigned :
            /\ var_x[t] \in {0, XDen}
            /\ var_x[t] = 0 <=> 0 \in ind_io[t]
            /\ var_x[t] = XDen <=> (\E ind \in ind_io[t] : ind >= 1)
            /\ "disjunction_input_input" \in b_tec =>
                  (0 \in ind_ii[t] <=> 0 \in ind_io[t])

\* a solution with standby power configured that is off at one timestep and
\* on at another, both disjunctions agreeing at each
C25_Witness ==
    /\ pc = "solved"
    /\ ContinuousX
    /\ XDen > 1
    /\ "disjunction_input_input" \in b_tec
    /\ \E t1, t2 \in Assigned :
          /\ var_x[t1] = 0 /\ ind_io[t1] = {0} /\ ind_ii[t1] = {0}
          /\ var_x[t2] = XDen /\ 0 \notin ind_io[t2] /\ 0 \notin ind_ii[t2]
          /\ MainInput(t2) > 0


\* type 4 with a positive size, min_part_load and rated_power
Type4Sized ==
    /\ InSolution
    /\ pft = 4
    /\ "dis_SUSD_trajectory" \in b_tec
    /\ var_size > 0
    /\ RatLess(Zero, cfg.min_part_load)
    /\ RatLess(Zero, cfg.rated_power)

\* the main input a startup or shutdown branch pins: size * trajectory value
PinnedSU(k) == RatMul(Rat(var_size), SU_trajectory[k])
PinnedSD(j) == RatMul(Rat(var_size), SD_trajectory[j])

\* the pinned input meets the size constraint and lies strictly below the
\* minimum of the on mode, min_part_load * size * rated_power
BelowOnMinimum(pinned) ==
    /\ RatLeq(pinned, SizeTimesRated)
    /\ RatLess(pinned, RatMul(cfg.min_part_load, SizeTimesRated))

\* C26: for type 4 with size > 0, min_part_load > 0 and any rated_power > 0,
\* every startup and every shutdown branch is satisfiable together with the
\* size constraint, and the main input it pins (size * trajectory value) is
\* strictly below the on-mode minimum min_part_load * size * rated_power.
C26_TrajectoryBelowMinimum ==
    Type4Sized =>
        /\ \A k \in 1..SU_time : BelowOnMinimum(PinnedSU(k))
        /\ \A j \in 1..SD_time : BelowOnMinimum(PinnedSD(j))

\* the same for rated_power >= 1
C26_TrajectoryBelowMinimum_RatedAtLeastOne ==
    (Type4Sized /\ RatLeq(One, cfg.rated_power)) =>
        /\ \A k \in 1..SU_time : BelowOnMinimum(PinnedSU(k))
        /\ \A j \in 1..SD_time : BelowOnMinimum(PinnedSD(j))


\* the timestep before t on the circular full index
PrevStep(t) == IF t = 1 THEN NumTimesteps ELSE t - 1

\* type 4 solved on the full index with trajectories that fit into it
Type4Circular ==
    /\ Type4Solved
    /\ "dis_SUSD_trajectory" \in b_tec
    /\ SU_time <= NumTimesteps
    /\ SD_time <= NumTimesteps

\* C27: for type 4 on the circular full index with SU_time, SD_time <= T: if
\* the off branch is selected at t, then at t + 1 no startup branch with offset
\* k >= 2 is selected (only offset 1 may follow off) and at t - 1 no shutdown
\* branch with offset j < SD_time is selected (only the last offset may
\* precede off).
C27_OffNeighbours ==
    Type4Circular =>
        \A t \in set_t_full :
            KindAt(t) = "off" =>
                /\ \A k \in 2..SU_time : ~StartupAt(NextStep(t), k)
                /\ \A j \in 1..(SD_time - 1) : ~ShutdownAt(PrevStep(t), j)

\* a solution with a startup of two steps or more in which off is followed by
\* the first startup step
C27_Witness ==
    /\ Type4Circular
    /\ SU_time >= 2
    /\ \E t \in set_t_full :
          /\ KindAt(t) = "off"
          /\ StartupAt(NextStep(t), 1)


\* the block is built and ramping is configured
RampingBuilt == RampingConfigured /\ pc \in {"built", "solving", "solved"}

\* the series with the value last at the last timestep and first at the first
WrapSeries(last, first) ==
    [t \in 1..2 |->
        [car \in set_input_carriers |-> IF t = 1 THEN first ELSE last]]

\* no constraint of either mode bounds a first timestep against the timestep
\* before it, whatever the two inputs are
FirstStepFree ==
    \A last, first \in 0..InMax :
        /\ \A ind \in Range0(3) :
              /\ init_ramping_operation_on_in(1, ind, last, first)
              /\ \A xlast, xfirst \in {0, XDen} :
                    init_ramping_operation_on_x(1, ind, xlast, xfirst)
        /\ RatesHold(WrapSeries(last, first), {1})

\* C28: selection of the ramping mode and its index: the integer-coupled
\* disjunction is built only when the function type is not 1 and
\* ramping_const_int = 1, and type 1 with ramping_const_int = 1 gets the
\* unconditional rate bound; in integer-coupled mode the constraints are on
\* the native performance index with the native input, and no auxiliary
\* full-resolution variable or linking constraint is created even under time
\* aggregation; in both modes the first timestep carries no rate constraint,
\* so the change from the last to the first timestep is never bounded.
C28_RampingModeSelection ==
    RampingBuilt =>
        /\ "dis_ramping_operation_on" \in b_tec <=> IntegerCoupled
        /\ "disjunction_ramping_operation_on" \in b_tec <=> IntegerCoupled
        /\ "const_ramping_up_rate" \in b_tec <=> ~IntegerCoupled
        /\ "const_ramping_down_rate" \in b_tec <=> ~IntegerCoupled
        /\ IntegerCoupled =>
              /\ "var_input_rr_full" \notin b_tec
              /\ "const_link_full_resolution_rr" \notin b_tec
              /\ var_input_rr_full = <<>>
              /\ DOMAIN ind_rr = Assigned
              /\ pc = "solved" => DOMAIN ind_rr = set_t_performance
              /\ \A t \in Assigned : t > 1 =>
                    (0 \in ind_rr[t] =>
                        WithinRate(MainInput(t - 1), MainInput(t), BoundR))
        /\ InSolution => FirstStepFree

\* an integer-coupled solution that is on at the first and at the last
\* timestep with a change of the main input from the last to the first
\* timestep larger than R
C28_Witness ==
    /\ pc = "solved"
    /\ IntegerCoupled
    /\ "dis_ramping_operation_on" \in b_tec
    /\ Len(input) >= 3
    /\ var_x[1] = XDen
    /\ var_x[Len(input)] = XDen
    /\ ~WithinRate(MainInput(Len(input)), MainInput(1), BoundR)

\* an integer-coupled block under time aggregation, solved on the
\* representative timesteps
C28_Witness_Aggregated ==
    /\ pc = "solved"
    /\ IntegerCoupled
    /\ cfg.typicaldays_N # 0
    /\ DOMAIN ind_rr = set_t_clustered
    /\ MainInput(1) # MainInput(2)

====
